---- MODULE Spec2Model ----
(***************************************************************************)
(* Market-data aggregation pipeline: request rate limiting, the retrying   *)
(* OKX request client, the multi-exchange price aggregator and the option  *)
(* anomaly detector.                                                       *)
(*                                                                         *)
(* Times are integer seconds.  Prices are integers in units of 0.5 (99.5   *)
(* is 199), weights are integers in tenths (0.8 is 8); a price returned by *)
(* the aggregator is the exact rational <<numerator, denominator>>.        *)
(***************************************************************************)
EXTENDS Integers, Sequences, FiniteSets, TLC

\* A time that was never set (a missing dictionary key, a None timestamp).
NoTime == -1

(***************************************************************************)
(* Bounds of the model.                                                    *)
(***************************************************************************)
RateMaxTime == 10      \* last clock value of the rate-limiter runs
AggExchanges == 2      \* exchanges whose initialisation succeeded (a prefix
                       \* of exchange_list) in the aggregator runs
AggTimeStep == 100     \* granularity of the clock in the aggregator runs
AggMaxTime == 600      \* last clock value of the aggregator runs
MaxBars == 2           \* longest kline series an exchange returns
MaxRetriesEnv == 3     \* largest MAX_RETRIES setting (the default is 3)
MaxBatch == 5          \* most rows in a batch given to the anomaly detector
MktTimeStep == 900     \* granularity of the clock in the market-data runs
MktMaxTime == 1800     \* last clock value of the market-data runs
MaxRows == 6           \* most rows of table market_data
RetTimeStep == 3600    \* granularity of the clock in the retention runs
RetHours == 5          \* hours the retention runs last
RetMaxRows == 3        \* most rows stored in the retention runs
MaxThreads == 2        \* most update threads ever started
OkxTimeStep == 300     \* granularity of the clock in the option-monitor runs
OkxMaxTime == 2700     \* last clock value of the option-monitor runs
LogTimeStep == 100     \* granularity of the clock in the logging runs
LogMaxTime == 600      \* last clock value of the logging runs
MaxLogLines == 4       \* most lines written in the logging runs
MaxLogCount == 3       \* largest count of an entry in the logging runs
MaxConnections == 2    \* max_connections of the pool in the pool runs
MaxPoolCallers == 3    \* threads that call Database operations
MaxOptBatch == 2       \* longest batch given to OptionDatabase.save_market_data
MaxDirectCalls == 2    \* direct calls of calculate_market_indicators in a run
OptMaxTime == 8        \* last clock value of the OptionMonitor runs
MaxOptRequests == 4    \* calls of OptionMonitor._check_rate_limit in a run

VARIABLES
    now,                \* time.time(), the wall clock
    \* ---- APIRateLimiter / MultiExchangeMonitor._check_rate_limit, one key
    min_interval,       \* self.min_interval / self.min_request_interval
    jitter,             \* self.jitter (0 for _check_rate_limit)
    last_request_time,  \* self.last_request_time[key], NoTime when absent
    rl_pc,              \* per thread: position inside the call
    current_time,       \* per thread: local current_time
    sleep_until,        \* per thread: earliest instant time.sleep returns
    prev_recorded,      \* the recorded call time that the last one replaced
    \* ---- MultiExchangeMonitor.get_spot_price as a function of its tickers
    exchange_weights,   \* self.exchange_weights
    tickers,            \* ticker['last'] of each exchange, 0 when unusable
    prices,             \* local list prices
    weights,            \* local list weights
    spot_result,        \* the returned value, NoResult before the return
    px_pc,              \* "input" before the call, "done" after
    \* ---- MultiExchangeMonitor: exchange health and the aggregation loops
    exchange_status,    \* self.exchange_status
    request_times,      \* self.last_request_time, per exchange
    agg_pc,             \* "idle", or the loop running: "spot", "klines"
    agg_idx,            \* position of the loop in self.exchanges
    best_klines,        \* local best_klines of get_klines
    klines_result,      \* the series get_klines returned
    visit,              \* what the last loop iteration did
    last_call,          \* per exchange: time and outcome of the last call
    series_lens,        \* bars each exchange returned in this call of get_klines
    \* ---- OKXOptionMonitor._request
    max_retries,        \* int(os.getenv('MAX_RETRIES', '3'))
    req_pc,             \* "idle", "loop", "exhausted", "escaping", "done"
    attempt,            \* loop variable attempt
    responses,          \* outcome of each self.session.request call so far
    sleeps,             \* seconds slept after each of those calls
    base_waits,         \* the backoff computed after each attempt, without jitter
    req_result,         \* what _request gave its caller
    \* ---- OptionAnalyzer.detect_anomalies
    volumes,            \* data['volume'], row by row
    threshold,          \* config['volume_threshold'], in halves
    anomalies,          \* the returned list
    an_pc,              \* "input" before the call, "done" after
    \* ---- MarketMonitor's data path over the market_data table
    market_data,        \* rows of table market_data, in insertion order
    mk_pc,              \* per caller: position inside the call
    mk_time,            \* per caller: current_time of _fetch_market_data
    mk_tickers,         \* per caller: what exchange.fetch_tickers returned
    mk_idx,             \* per caller: position of the loop in its list
    mk_fetched,         \* per caller: local list market_data / data
    upd_time,           \* current_time of update_market_data
    read_result,        \* what get_market_data returned last
    cycle_rows,         \* per symbol: rows the polling cycle begun last has
                        \* inserted
    \* ---- Database.cleanup_old_data and the queries of table market_data
    last_cleanup,       \* when cleanup_old_data last ran, NoTime before
    query_time,         \* when the last query ran, NoTime before
    query_result,       \* the rows the last query returned
    \* ---- MarketMonitor.start, stop and _update_loop
    running,            \* self.running
    stop_event,         \* self._stop_event.is_set()
    update_thread,      \* self.update_thread: the thread started last
    thr_pc,             \* per update thread: position in _update_loop
    stop_pc,            \* position of the caller inside stop()
    joins,              \* join(timeout=1) calls of the last stop() that
                        \* timed out
    db_closed,          \* self.db.close() was called
    \* ---- OKXOptionMonitor: background tasks and stop
    okx_pc,             \* per task: "ready" to run a cycle, or "sleep"
    okx_wake,           \* per task: when its time.sleep returns
    okx_cycles,         \* per task: cycles begun so far
    okx_stopped,        \* stop() has returned
    \* ---- OKXOptionMonitor.log_error, one error key
    error_cache,        \* self.error_cache[error_key], NoEntry when absent
    log_lines,          \* what self.logger.error wrote: message and time
    \* ---- Database.execute_with_connection over ConnectionPool
    pool_size,          \* self.connections.qsize()
    held,               \* connections each caller has taken and not returned
    db_pc,              \* where each caller is in its Database operation
    db_op,              \* the Database operation each caller is in
    db_result,          \* how the last operation of each caller ended
    close_pc,           \* where Database.close is
    closed_conns,       \* connections closed by close_all
    \* ---- OptionDatabase.save_market_data / calculate_market_indicators
    odb_lock,           \* holder of self.lock, or "free"
    odb_pc,             \* where each caller of the OptionDatabase is
    market_data_list,   \* the batch given to save_market_data
    odb_idx,            \* position of the loop of save_market_data in the batch
    updated,            \* positions whose item got the indicators merged in
    option_market_data, \* positions of the batch inserted into the table
    save_result,        \* what save_market_data returned, "none" before
    indicator_calls,    \* direct calls of calculate_market_indicators so far
    \* ---- OptionAPI._retry_request
    retry_max,          \* max_retries
    retry_delay,        \* delay
    retry_pc,           \* where the call of _retry_request is
    retry_attempt,      \* attempt, the loop variable
    retry_waits,        \* the backoff computed after each failed attempt, without jitter
    retry_result,       \* how the call ended
    \* ---- OptionMonitor._check_rate_limit, one endpoint
    opt_last_request_time, \* self.last_request_time[endpoint] of OptionMonitor
    request_starts      \* the times at which _check_rate_limit returned

rateVars == <<min_interval, jitter, last_request_time, rl_pc, current_time,
              sleep_until, prev_recorded>>

priceVars == <<exchange_weights, tickers, prices, weights, spot_result, px_pc>>

aggVars == <<exchange_status, request_times, agg_pc, agg_idx, best_klines,
             klines_result, visit, last_call, series_lens>>

reqVars == <<max_retries, req_pc, attempt, responses, sleeps, base_waits,
             req_result>>

anomVars == <<volumes, threshold, anomalies, an_pc>>

mktVars == <<market_data, mk_pc, mk_time, mk_tickers, mk_idx, mk_fetched,
             upd_time, read_result, cycle_rows>>

retVars == <<last_cleanup, query_time, query_result>>

lifeVars == <<running, stop_event, update_thread, thr_pc, stop_pc, joins,
              db_closed>>

okxVars == <<okx_pc, okx_wake, okx_cycles, okx_stopped>>

logVars == <<error_cache, log_lines>>

poolVars == <<pool_size, held, db_pc, db_op, db_result, close_pc,
              closed_conns>>

odbVars == <<odb_lock, odb_pc, market_data_list, odb_idx, updated,
             option_market_data, save_result, indicator_calls>>

retryVars == <<retry_max, retry_delay, retry_pc, retry_attempt, retry_waits, retry_result>>

optVars == <<opt_last_request_time, request_starts>>

monVars == <<mktVars, retVars, lifeVars, okxVars, logVars, poolVars, odbVars,
             retryVars, optVars>>

vars == <<now, rateVars, priceVars, aggVars, reqVars, anomVars, monVars>>

\* the variables outside one component
notRate == <<priceVars, aggVars, reqVars, anomVars, monVars>>
notPrice == <<rateVars, aggVars, reqVars, anomVars, monVars>>
notAgg == <<rateVars, tickers, px_pc, reqVars, anomVars, monVars>>
notReq == <<rateVars, priceVars, aggVars, anomVars, monVars>>
notAnom == <<rateVars, priceVars, aggVars, reqVars, monVars>>
notMon == <<rateVars, priceVars, aggVars, reqVars, anomVars>>
notMkt == <<notMon, retVars, lifeVars, okxVars, logVars, poolVars, odbVars,
            retryVars, optVars>>
notRet == <<notMon, mk_pc, mk_time, mk_tickers, mk_idx, mk_fetched, upd_time,
            read_result, cycle_rows, lifeVars, okxVars, logVars, poolVars,
            odbVars, retryVars, optVars>>
notLife == <<notMon, mktVars, retVars, okxVars, logVars, poolVars, odbVars,
             retryVars, optVars>>
notOkx == <<notMon, mktVars, retVars, lifeVars, logVars, poolVars, odbVars,
            retryVars, optVars>>
notLog == <<notMon, mktVars, retVars, lifeVars, okxVars, poolVars, odbVars,
            retryVars, optVars>>
notPool == <<notMon, mktVars, retVars, lifeVars, okxVars, logVars, odbVars,
             retryVars, optVars>>
notOdb == <<notMon, mktVars, retVars, lifeVars, okxVars, logVars, poolVars,
            retryVars, optVars>>
notRetry == <<notMon, mktVars, retVars, lifeVars, okxVars, logVars, poolVars,
              odbVars, optVars>>
notOpt == <<notMon, mktVars, retVars, lifeVars, okxVars, logVars, poolVars,
            odbVars, retryVars>>

(***************************************************************************)
(* Rate limiter: APIRateLimiter.wait_if_needed and                         *)
(* MultiExchangeMonitor._check_rate_limit.  Neither takes a lock, so a     *)
(* call is three steps: read the clock, read the last call time (and       *)
(* sleep), write the new call time.                                        *)
(***************************************************************************)
Threads == {1, 2}

APIMinInterval == 5       \* APIRateLimiter(min_interval=5.0)
APIJitter == 2            \* APIRateLimiter(jitter=2.0)
MinRequestInterval == 2   \* MIN_REQUEST_INTERVAL default '2.0'

\* The two limiters as (min_interval, jitter) settings.
Limiters == { <<APIMinInterval, APIJitter>>, <<MinRequestInterval, 0>> }

\* Faulty variant: the base wait is dropped, only the jitter is slept.
SleepTimeJitterOnly(mi, elapsed, j) == j

\* sleep_time = self.min_interval - elapsed + random.uniform(0, self.jitter)
SleepTime(mi, elapsed, j) == mi - elapsed + j

RateCallsIdle ==
    /\ last_request_time = NoTime
    /\ rl_pc = [t \in Threads |-> "idle"]
    /\ current_time = [t \in Threads |-> 0]
    /\ sleep_until = [t \in Threads |-> 0]
    /\ prev_recorded = NoTime

RateIdle ==
    /\ min_interval = MinRequestInterval
    /\ jitter = 0
    /\ RateCallsIdle

\* current_time = time.time()
ReadClock(t) ==
    /\ rl_pc[t] = "idle"
    /\ current_time' = [current_time EXCEPT ![t] = now]
    /\ rl_pc' = [rl_pc EXCEPT ![t] = "check"]
    /\ UNCHANGED <<notRate, now, min_interval, jitter, last_request_time, sleep_until,
                   prev_recorded>>

\* if key in last_request_time and elapsed < min_interval: time.sleep(...)
CheckElapsed(t) ==
    /\ rl_pc[t] = "check"
    /\ IF last_request_time # NoTime
          /\ current_time[t] - last_request_time < min_interval
       THEN \E j \in 0..jitter :
              /\ sleep_until' = [sleep_until EXCEPT ![t] =
                    now + SleepTime(min_interval,
                                    current_time[t] - last_request_time, j)]
              /\ rl_pc' = [rl_pc EXCEPT ![t] = "sleep"]
       ELSE /\ rl_pc' = [rl_pc EXCEPT ![t] = "record"]
            /\ UNCHANGED sleep_until
    /\ UNCHANGED <<notRate, now, min_interval, jitter, last_request_time, current_time,
                   prev_recorded>>

\* time.sleep returns, no earlier than the requested duration
WakeUp(t) ==
    /\ rl_pc[t] = "sleep"
    /\ now >= sleep_until[t]
    /\ rl_pc' = [rl_pc EXCEPT ![t] = "record"]
    /\ UNCHANGED <<notRate, now, min_interval, jitter, last_request_time, current_time,
                   sleep_until, prev_recorded>>

\* self.last_request_time[key] = time.time()
RecordCall(t) ==
    /\ rl_pc[t] = "record"
    /\ prev_recorded' = last_request_time
    /\ last_request_time' = now
    /\ rl_pc' = [rl_pc EXCEPT ![t] = "idle"]
    /\ UNCHANGED <<notRate, now, min_interval, jitter, current_time, sleep_until>>

RateTick ==
    /\ now < RateMaxTime
    /\ now' = now + 1
    /\ UNCHANGED <<rateVars, notRate>>


(***************************************************************************)
(* MultiExchangeMonitor.get_spot_price: the weighted consensus price.      *)
(***************************************************************************)
\* self.exchange_list, in dictionary (insertion) order
ExchangeIds == <<"binance", "okx", "bybit", "kucoin", "gate", "huobi",
                 "bitget", "mexc">>

NumExchanges == 8

\* default weights of self.exchange_list, in tenths
DefaultWeights == <<10, 10, 10, 8, 8, 8, 7, 7>>

\* every {EXCHANGE}_WEIGHT environment variable set to 1.0
UnitWeights == [i \in 1..NumExchanges |-> 10]

WeightConfigs == {DefaultWeights, UnitWeights}

\* The value returned before any return statement ran.
NoResult == <<-1, 0>>

\* A returned value that is not a number (None).
NotANumber == <<0, 0>>

\* Last prices an exchange may quote, in units of 0.5; 0 stands for a ticker
\* without a usable last price or a call that raised.
QuoteA == <<200, 202, 198, 204, 2000, 200, 200, 200>>
QuoteB == <<202, 200, 200, 199, 200, 2000, 198, 202>>

Quotes(i) == {0, QuoteA[i], QuoteB[i]}

RECURSIVE SeqSum(_)
SeqSum(s) == IF s = <<>> THEN 0 ELSE Head(s) + SeqSum(Tail(s))

\* sum(p * w for p, w in zip(prices, weights))
RECURSIVE SumProduct(_, _)
SumProduct(ps, ws) ==
    IF ps = <<>> THEN 0 ELSE Head(ps) * Head(ws) + SumProduct(Tail(ps), Tail(ws))

\* n^2 * (n - 1) * statistics.stdev(ps)^2, as an exact integer
ScaledSquares(ps) ==
    LET n == Len(ps)
        S == SeqSum(ps)
    IN  SeqSum([i \in 1..n |-> (n * ps[i] - S) * (n * ps[i] - S)])

\* Faulty variant: the outlier test compares with one standard deviation.
WithinOneStdDev(ps, i) ==
    LET n == Len(ps)
        S == SeqSum(ps)
    IN  (n * ps[i] - S) * (n * ps[i] - S) * (n - 1) <= ScaledSquares(ps)

\* abs(price - mean_price) <= 2 * std_dev, both sides squared and scaled by
\* n^2 * (n - 1)
WithinTwoStdDev(ps, i) ==
    LET n == Len(ps)
        S == SeqSum(ps)
    IN  (n * ps[i] - S) * (n * ps[i] - S) * (n - 1) <= 4 * ScaledSquares(ps)

\* the elements of s at the positions that satisfy Keep, in order
RECURSIVE FilterIdx(_, _, _)
FilterIdx(s, keep, i) ==
    IF i > Len(s) THEN <<>>
    ELSE IF i \in keep THEN <<s[i]>> \o FilterIdx(s, keep, i + 1)
         ELSE FilterIdx(s, keep, i + 1)

KeptPositions(ps) == {i \in 1..Len(ps) : WithinTwoStdDev(ps, i)}

\* Faulty variant: the plain mean of the retained prices.
UnweightedAverage(ps, ws) == <<SeqSum(ps), Len(ps)>>

\* sum(p * w ...) / sum(weights)
WeightedAverage(ps, ws) == <<SumProduct(ps, ws), SeqSum(ws)>>

\* return 0.0
NoPriceValue == <<0, 1>>

\* lines 147-177: the value computed from the collected prices and weights
ConsensusPrice(ps, ws) ==
    IF ps = <<>> THEN NoPriceValue
    ELSE IF Len(ps) = 1 THEN <<ps[1], 1>>
    ELSE IF Len(ps) >= 4 /\ KeptPositions(ps) # {}
         THEN WeightedAverage(FilterIdx(ps, KeptPositions(ps), 1),
                              FilterIdx(ws, KeptPositions(ps), 1))
         ELSE WeightedAverage(ps, ws)

\* the exchanges whose ticker has a usable last price
Usable(tk) == {i \in 1..NumExchanges : tk[i] # 0}

PriceIdle ==
    /\ exchange_weights = DefaultWeights
    /\ tickers = [i \in 1..NumExchanges |-> 0]
    /\ prices = <<>>
    /\ weights = <<>>
    /\ spot_result = NoResult
    /\ px_pc = "idle"

(***************************************************************************)
(* MultiExchangeMonitor: exchange health, cool-down and the loops of       *)
(* get_spot_price and get_klines.  One action is one iteration of the      *)
(* loop.  The clock moves in steps of AggTimeStep; time.sleep returns at   *)
(* the first clock instant that is not before the requested wake-up time.  *)
(***************************************************************************)
COOLDOWN == 300     \* seconds an exchange in error state is skipped

AggIds == 1..AggExchanges

\* self.exchange_status[exchange_id] after _initialize_exchanges
InitialStatus ==
    [status |-> "ok", last_error |-> NoTime, error_count |-> 0,
     last_success |-> 0]

NoSeries == [src |-> 0, len |-> -1]

\* Faulty variant: the cool-down test admits the exchange only after COOLDOWN.
InCoolDownInclusive(st, t) ==
    st.status = "error" /\ t - st.last_error <= COOLDOWN

\* status == 'error' and time.time() - last_error < 300
InCoolDown(st, t) ==
    st.status = "error" /\ t - st.last_error < COOLDOWN

\* the first clock instant at or after t
RECURSIVE NextInstant(_, _)
NextInstant(from, t) ==
    IF from >= t THEN from ELSE NextInstant(from + AggTimeStep, t)

\* _check_rate_limit: the time at which the call is recorded and made
CallTime(e) ==
    IF request_times[e] # NoTime /\ now - request_times[e] < min_interval
    THEN NextInstant(now, now + (min_interval - (now - request_times[e])))
    ELSE now

\* status = 'ok', last_success = time.time(), error_count = 0
MarkOk(st, t) ==
    [st EXCEPT !.status = "ok", !.last_success = t, !.error_count = 0]

\* status = 'error', last_error = time.time(), error_count += 1
MarkError(st, t) ==
    [st EXCEPT !.status = "error", !.last_error = t,
               !.error_count = st.error_count + 1]

AggIdle ==
    /\ exchange_status = [e \in AggIds |-> InitialStatus]
    /\ request_times = [e \in AggIds |-> NoTime]
    /\ agg_pc = "idle"
    /\ agg_idx = 1
    /\ best_klines = NoSeries
    /\ klines_result = NoSeries
    /\ visit = [kind |-> "none", outcome |-> "none"]
    /\ last_call = [e \in AggIds |-> [at |-> NoTime, outcome |-> "none"]]
    /\ series_lens = [e \in AggIds |-> -1]

\* a call of get_spot_price begins: prices = []; weights = []; the locals and
\* the return value of the previous call are gone
SpotBegin ==
    /\ agg_pc = "idle"
    /\ agg_pc' = "spot"
    /\ agg_idx' = 1
    /\ prices' = <<>>
    /\ weights' = <<>>
    /\ spot_result' = NoResult
    /\ best_klines' = NoSeries
    /\ klines_result' = NoSeries
    /\ series_lens' = [e \in AggIds |-> -1]
    /\ UNCHANGED <<now, notAgg, exchange_weights, exchange_status,
                   request_times, visit, last_call>>

\* the exchange is in cool-down: continue
LoopSkip ==
    /\ agg_pc \in {"spot", "klines"}
    /\ agg_idx \in AggIds
    /\ InCoolDown(exchange_status[agg_idx], now)
    /\ agg_idx' = agg_idx + 1
    /\ visit' = [kind |-> "skip", outcome |-> "none"]
    /\ UNCHANGED <<now, notAgg, priceVars, exchange_status, request_times,
                   agg_pc, best_klines, klines_result, last_call,
                   series_lens>>

\* what every iteration that calls the exchange does: pass the cool-down
\* test, wait in _check_rate_limit, record the call
CallExchange(e, outcome) ==
    /\ agg_idx = e
    /\ e \in AggIds
    /\ ~InCoolDown(exchange_status[e], now)
    /\ CallTime(e) <= AggMaxTime
    /\ now' = CallTime(e)
    /\ request_times' = [request_times EXCEPT ![e] = now']
    /\ agg_idx' = e + 1
    /\ visit' = [kind |-> "call", outcome |-> outcome]
    /\ last_call' = [last_call EXCEPT ![e] = [at |-> now', outcome |-> outcome]]

\* fetch_ticker returned a usable last price
SpotPrice(e, p) ==
    /\ agg_pc = "spot"
    /\ CallExchange(e, "price")
    /\ prices' = Append(prices, p)
    /\ weights' = Append(weights, exchange_weights[e])
    /\ exchange_status' = [exchange_status EXCEPT ![e] = MarkOk(@, now')]
    /\ UNCHANGED <<notAgg, exchange_weights, spot_result, agg_pc, best_klines,
                   klines_result,
                   series_lens>>

\* fetch_ticker returned a ticker whose last price is missing, None or 0
SpotEmpty(e) ==
    /\ agg_pc = "spot"
    /\ CallExchange(e, "empty")
    /\ UNCHANGED <<notAgg, priceVars, exchange_status, agg_pc, best_klines,
                   klines_result,
                   series_lens>>

\* fetch_ticker raised
SpotRaise(e) ==
    /\ agg_pc = "spot"
    /\ CallExchange(e, "raised")
    /\ exchange_status' = [exchange_status EXCEPT ![e] = MarkError(@, now')]
    /\ UNCHANGED <<notAgg, priceVars, agg_pc, best_klines, klines_result,
                   series_lens>>

\* the loop is over: return the consensus (lines 147-177)
SpotReturn ==
    /\ agg_pc = "spot"
    /\ agg_idx = AggExchanges + 1
    /\ spot_result' = ConsensusPrice(prices, weights)
    /\ agg_pc' = "idle"
    /\ UNCHANGED <<now, notAgg, exchange_weights, prices, weights,
                   exchange_status, request_times, agg_idx, best_klines,
                   klines_result, visit, last_call,
                   series_lens>>

\* a call of get_klines begins: best_klines = None; max_length = 0
KlinesBegin ==
    /\ agg_pc = "idle"
    /\ agg_pc' = "klines"
    /\ agg_idx' = 1
    /\ best_klines' = NoSeries
    /\ klines_result' = NoSeries
    /\ series_lens' = [e \in AggIds |-> -1]
    /\ prices' = <<>>
    /\ weights' = <<>>
    /\ spot_result' = NoResult
    /\ UNCHANGED <<now, notAgg, exchange_weights, exchange_status,
                   request_times, visit, last_call>>

\* Faulty variant: the first non-empty series is kept whatever comes later.
FirstNonEmpty(n, best) == n > 0 /\ best = NoSeries

\* len(ohlcv) > max_length
Longer(n, best) == n > (IF best = NoSeries THEN 0 ELSE best.len)

\* fetch_ohlcv returned a series of n bars
KlinesSeries(e, n) ==
    /\ agg_pc = "klines"
    /\ CallExchange(e, "series")
    /\ best_klines' = IF Longer(n, best_klines)
                      THEN [src |-> e, len |-> n] ELSE best_klines
    /\ series_lens' = [series_lens EXCEPT ![e] = n]
    /\ exchange_status' = [exchange_status EXCEPT ![e] = MarkOk(@, now')]
    /\ UNCHANGED <<notAgg, priceVars, agg_pc, klines_result>>

\* the symbol is not in load_markets(): continue
KlinesUnsupported(e) ==
    /\ agg_pc = "klines"
    /\ CallExchange(e, "unsupported")
    /\ UNCHANGED <<notAgg, priceVars, exchange_status, agg_pc, best_klines,
                   klines_result,
                   series_lens>>

\* load_markets or fetch_ohlcv raised
KlinesRaise(e) ==
    /\ agg_pc = "klines"
    /\ CallExchange(e, "raised")
    /\ exchange_status' = [exchange_status EXCEPT ![e] = MarkError(@, now')]
    /\ UNCHANGED <<notAgg, priceVars, agg_pc, best_klines, klines_result,
                   series_lens>>

\* return pd.DataFrame() or the DataFrame of best_klines
KlinesReturn ==
    /\ agg_pc = "klines"
    /\ agg_idx = AggExchanges + 1
    /\ klines_result' = IF best_klines = NoSeries
                        THEN [src |-> 0, len |-> 0] ELSE best_klines
    /\ agg_pc' = "idle"
    /\ UNCHANGED <<now, notAgg, priceVars, exchange_status, request_times,
                   agg_idx, best_klines, visit, last_call,
                   series_lens>>

AggTick ==
    /\ now + AggTimeStep <= AggMaxTime
    /\ now' = now + AggTimeStep
    /\ UNCHANGED <<rateVars, priceVars, aggVars, reqVars, anomVars, monVars>>

(***************************************************************************)
(* OKXOptionMonitor._request: the retry loop around self.session.request.  *)
(* One action is one iteration of the loop: the HTTP call, the handling of *)
(* its outcome and the sleep that follows.                                 *)
(***************************************************************************)
BaseDelay == 2      \* base_delay = 2.0

\* What one call of self.session.request (and response.json()) ends in:
\* 200 with code '0', 200 with another code, 429, another 4xx, 5xx, or an
\* exception (connection error, timeout, invalid JSON).
Outcomes == {"ok", "api_error", "429", "4xx", "5xx", "exception"}

\* Faulty variant: the delay shrinks from one attempt to the next.
BackoffShrinking(a) == (2 ^ (max_retries - a)) * BaseDelay

\* (2 ** attempt) * base_delay
Backoff(a) == (2 ^ a) * BaseDelay

\* the outcomes that fall through to the retry delay of lines 497-500
FallsThrough(o) == o \in {"api_error", "4xx", "5xx"}

\* Faulty variant: an exception on the last attempt reaches the caller.
EscapeToCaller == "raised"

\* except Exception as e: ... return None (lines 512-514)
OuterHandler == "None"

ReqIdle ==
    /\ max_retries = MaxRetriesEnv
    /\ req_pc = "idle"
    /\ attempt = 0
    /\ responses = <<>>
    /\ sleeps = <<>>
    /\ base_waits = <<>>
    /\ req_result = "pending"

\* lines 430-465: build the signed headers, read MAX_RETRIES, enter the loop
ReqBegin ==
    /\ req_pc = "idle"
    /\ req_pc' = IF max_retries > 0 THEN "loop" ELSE "exhausted"
    /\ UNCHANGED <<now, notReq, max_retries, attempt, responses, sleeps,
                   req_result,
                   base_waits>>

\* lines 430-462 raise (signing fails, MAX_RETRIES is not an integer)
ReqSetupRaises ==
    /\ req_pc = "idle"
    /\ req_pc' = "escaping"
    /\ UNCHANGED <<now, notReq, max_retries, attempt, responses, sleeps,
                   req_result,
                   base_waits>>

\* the loop moves to the next attempt after sleeping the backoff b (0 when
\* none is computed) plus the jitter j
NextAttempt(o, b, j) ==
    /\ responses' = Append(responses, o)
    /\ sleeps' = Append(sleeps, b + j)
    /\ base_waits' = IF b > 0
                     THEN Append(base_waits, [attempt |-> attempt, wait |-> b])
                     ELSE base_waits
    /\ now' = now + b + j
    /\ attempt' = attempt + 1
    /\ req_pc' = IF attempt + 1 < max_retries THEN "loop" ELSE "exhausted"
    /\ UNCHANGED <<notReq, max_retries, req_result>>

\* status 200 and code '0': return data
AttemptOk ==
    /\ req_pc = "loop"
    /\ responses' = Append(responses, "ok")
    /\ sleeps' = Append(sleeps, 0)
    /\ req_result' = "data"
    /\ req_pc' = "done"
    /\ UNCHANGED <<now, notReq, max_retries, attempt,
                   base_waits>>

\* status 429: sleep the backoff plus jitter, continue
AttemptRateLimited(j) ==
    /\ req_pc = "loop"
    /\ NextAttempt("429", Backoff(attempt), j)

\* status 200 with an error code, or any other status: log it, then sleep
\* the backoff unless this was the last attempt
AttemptFails(o) ==
    /\ req_pc = "loop"
    /\ FallsThrough(o)
    /\ NextAttempt(o, IF attempt < max_retries - 1 THEN Backoff(attempt) ELSE 0,
                   0)

\* the call or response.json() raised and attempts remain: sleep the backoff
AttemptRaises ==
    /\ req_pc = "loop"
    /\ attempt < max_retries - 1
    /\ NextAttempt("exception", Backoff(attempt), 0)

\* the call raised on the last attempt: raise
LastAttemptRaises ==
    /\ req_pc = "loop"
    /\ ~(attempt < max_retries - 1)
    /\ responses' = Append(responses, "exception")
    /\ sleeps' = Append(sleeps, 0)
    /\ req_pc' = "escaping"
    /\ UNCHANGED <<now, notReq, max_retries, attempt, req_result,
                   base_waits>>

\* the loop ran out: return None (line 510)
ReqExhausted ==
    /\ req_pc = "exhausted"
    /\ req_result' = "None"
    /\ req_pc' = "done"
    /\ UNCHANGED <<now, notReq, max_retries, attempt, responses, sleeps,
                   base_waits>>

\* an exception left the body of the outer try
ReqEscapes ==
    /\ req_pc = "escaping"
    /\ req_result' = OuterHandler
    /\ req_pc' = "done"
    /\ UNCHANGED <<now, notReq, max_retries, attempt, responses, sleeps,
                   base_waits>>

(***************************************************************************)
(* OptionAnalyzer.detect_anomalies: cross-sectional z-scores of a batch.   *)
(* Thresholds are integers in halves (2.0 is 4).  With n rows of sum S,    *)
(* D = n * v - S and Q the sum of the D squared,                           *)
(*     z^2 = D^2 * (n - 1) / Q      (pandas std is the sample deviation).  *)
(***************************************************************************)
DefaultThreshold == 4      \* config.get('volume_threshold', 2.0)

Thresholds == {2, DefaultThreshold}

Volumes == {10, 20, 400, 1000}

\* volume_std > 0: the sample deviation exists (two rows or more) and is
\* not zero
StdPositive(vs) == Len(vs) >= 2 /\ ScaledSquares(vs) > 0

\* the numerator D^2 * (n - 1) of z^2 for row i
ZNum(vs, i) ==
    LET n == Len(vs)
        S == SeqSum(vs)
    IN  (n * vs[i] - S) * (n * vs[i] - S) * (n - 1)

\* Faulty variant: the severity factor 1.5 is applied to the z-score of the test.
ExceedsScaled(vs, i, t) ==
    StdPositive(vs) /\ 9 * ZNum(vs, i) > t * t * ScaledSquares(vs)

\* z_score = (v - mean) / std if std > 0 else 0;  abs(z_score) > threshold
Exceeds(vs, i, t) ==
    StdPositive(vs) /\ 4 * ZNum(vs, i) > t * t * ScaledSquares(vs)

\* Faulty variant: the severe label starts at twice the threshold.
ExceedsSevereDouble(vs, i, t) ==
    StdPositive(vs) /\ ZNum(vs, i) > t * t * ScaledSquares(vs)

\* abs(z_score) > threshold * 1.5, i.e. 16 * z^2 > 9 * t^2
ExceedsSevere(vs, i, t) ==
    StdPositive(vs)
        /\ (16 * ZNum(vs, i) - 1) \div 9 >= t * t * ScaledSquares(vs)

\* the rows appended by the loop of _detect_volume_anomalies, from row i on
RECURSIVE VolumeAnomaliesFrom(_, _, _)
VolumeAnomaliesFrom(vs, t, i) ==
    IF i > Len(vs) THEN <<>>
    ELSE IF Exceeds(vs, i, t)
         THEN <<[contract_id |-> i,
                 type |-> "VOLUME_ANOMALY",
                 severity |-> IF ExceedsSevere(vs, i, t)
                              THEN "HIGH" ELSE "MEDIUM",
                 value |-> vs[i]]>> \o VolumeAnomaliesFrom(vs, t, i + 1)
         ELSE VolumeAnomaliesFrom(vs, t, i + 1)

\* _detect_volume_anomalies(data, threshold)
DetectVolumeAnomalies(vs, t) == VolumeAnomaliesFrom(vs, t, 1)

\* detect_price_anomalies: returns [] when the deviation is 0, and otherwise
\* reads self.threshold, which OptionAnalyzer never sets: the AttributeError
\* is caught and [] returned
DetectPriceAnomalies == <<>>

\* detect_iv_anomalies: as detect_price_anomalies
DetectIvAnomalies == <<>>

AnomIdle ==
    /\ volumes = <<>>
    /\ threshold = DefaultThreshold
    /\ anomalies = <<>>
    /\ an_pc = "idle"

\* detect_anomalies(data, config)
DetectAnomalies ==
    /\ an_pc = "input"
    /\ anomalies' = DetectVolumeAnomalies(volumes, threshold)
                        \o DetectPriceAnomalies \o DetectIvAnomalies
    /\ an_pc' = "done"
    /\ UNCHANGED <<now, notAnom, volumes, threshold>>

(***************************************************************************)
(* MarketMonitor's data path: _fetch_market_data, update_market_data and   *)
(* get_market_data over table market_data of Database.  The polling loop   *)
(* ("poll") runs update_market_data; the API and the dashboard ("read")    *)
(* run get_market_data.  Prices and volumes are whole numbers chosen so    *)
(* that every change rate, in percent, is a whole number too.              *)
(***************************************************************************)
MktCallers == {"poll", "read"}

\* self.symbols: the first two of the ten monitored pairs
symbols == <<"BTC/USDT", "ETH/USDT">>

NumSymbols == Len(symbols)

\* a symbol that is missing from the tickers (symbol not in tickers)
Absent == [present |-> FALSE, last |-> 0, quoteVolume |-> 0]

\* ticker['last'] and ticker['quoteVolume'] an exchange may report
TickerChoices(i) ==
    IF i = 1
    THEN {Absent, [present |-> TRUE, last |-> 1, quoteVolume |-> 50],
                  [present |-> TRUE, last |-> 100, quoteVolume |-> 50],
                  [present |-> TRUE, last |-> 100, quoteVolume |-> 0]}
    ELSE {Absent, [present |-> TRUE, last |-> 100, quoteVolume |-> 50]}

TickerResults ==
    {<<a, b>> : a \in TickerChoices(1), b \in TickerChoices(2)}

NoTickers == <<Absent, Absent>>

\* get_historical_data returned None
NoRow == [symbol |-> "", price |-> 0, volume |-> 0, price_change_15m |-> 0,
          volume_change_15m |-> 0, timestamp |-> NoTime]

\* Database.save_market_data: INSERT INTO market_data
SaveMarketData(table, d) == Append(table, d)

\* Database.get_historical_data(symbol, timestamp): the row of the symbol
\* nearest to the timestamp among those not after it, whatever its age; when
\* several rows share that time the query does not say which one it returns
HistoricalData(table, s, ts) ==
    LET cand == {k \in 1..Len(table) :
                    table[k].symbol = s /\ table[k].timestamp <= ts}
        best == {k \in cand :
                    \A j \in cand : table[j].timestamp <= table[k].timestamp}
    IN  IF cand = {} THEN {NoRow} ELSE {table[k] : k \in best}

\* the rows of table[i..] that satisfy timestamp = ts
RECURSIVE RowsAt(_, _, _)
RowsAt(table, ts, i) ==
    IF i > Len(table) THEN <<>>
    ELSE IF table[i].timestamp = ts
         THEN <<table[i]>> \o RowsAt(table, ts, i + 1)
         ELSE RowsAt(table, ts, i + 1)

\* SELECT MAX(timestamp) FROM market_data
MaxTimestamp(table) ==
    CHOOSE t \in {table[k].timestamp : k \in 1..Len(table)} :
        \A k \in 1..Len(table) : table[k].timestamp <= t

\* Database.get_latest_market_data: the rows whose timestamp is the greatest
\* of the whole table
GetLatestMarketData(table) ==
    IF table = <<>> THEN <<>> ELSE RowsAt(table, MaxTimestamp(table), 1)

\* ((current - old) / old) * 100
ChangeRate(current, old) == ((current - old) * 100) \div old

\* _validate_market_data
ValidateMarketData(d) == d.price > 0 /\ d.volume >= 0

\* the dict _fetch_market_data builds for a symbol from its ticker t and the
\* row h that get_historical_data gave for 15 minutes before
FetchedRow(s, t, h, ct) ==
    [symbol |-> s,
     price |-> t.last,
     volume |-> t.quoteVolume,
     price_change_15m |->
         IF h # NoRow /\ h.price > 0 THEN ChangeRate(t.last, h.price) ELSE 0,
     volume_change_15m |->
         IF h # NoRow /\ h.volume > 0
         THEN ChangeRate(t.quoteVolume, h.volume) ELSE 0,
     timestamp |-> ct]

\* the item of update_market_data after its change rates were set: the
\* gradient of the two 15-minute change rates when both rows exist
UpdatedItem(item, h15, h30, ct) ==
    IF h15 # NoRow /\ h30 # NoRow
    THEN [item EXCEPT
            !.timestamp = ct,
            !.price_change_15m = ChangeRate(item.price, h15.price)
                                    - ChangeRate(h15.price, h30.price),
            !.volume_change_15m = ChangeRate(item.volume, h15.volume)
                                    - ChangeRate(h15.volume, h30.volume)]
    ELSE [item EXCEPT
            !.timestamp = ct,
            !.price_change_15m = 0,
            !.volume_change_15m = 0]

\* the volume division of update_market_data raises ZeroDivisionError: the
\* item is logged and skipped, with its price change already set
VolumeDivisionFails(h15, h30) ==
    h15 # NoRow /\ h30 # NoRow /\ (h15.volume = 0 \/ h30.volume = 0)

SkippedItem(item, h15, h30, ct) ==
    [item EXCEPT
        !.timestamp = ct,
        !.price_change_15m = ChangeRate(item.price, h15.price)
                                - ChangeRate(h15.price, h30.price)]

\* the locals of a caller before its call and after it returned
Returned(f, th, v) == [f EXCEPT ![th] = v]

\* rows a call may still insert
Need(th) == IF th = "poll" THEN 2 * NumSymbols ELSE NumSymbols

Pending(th) == IF mk_pc[th] = "idle" THEN 0 ELSE Need(th)

RoomFor(th) ==
    Len(market_data) + Need(th)
        + (IF th = "poll" THEN Pending("read") ELSE Pending("poll")) <= MaxRows

\* no row inserted yet, for any symbol
NoRows == [i \in 1..NumSymbols |-> 0]

\* the count of inserted rows when caller th begins a call
CountFrom(th) == IF th = "poll" THEN NoRows ELSE cycle_rows

\* the count of inserted rows after caller th inserted a row of symbol i
Counted(th, i) ==
    IF th = "poll" THEN [cycle_rows EXCEPT ![i] = @ + 1] ELSE cycle_rows

\* position of symbol s in self.symbols
SymbolIndex(s) == CHOOSE i \in 1..NumSymbols : symbols[i] = s

MktIdle ==
    /\ market_data = <<>>
    /\ mk_pc = [th \in MktCallers |-> "idle"]
    /\ mk_time = [th \in MktCallers |-> NoTime]
    /\ mk_tickers = [th \in MktCallers |-> NoTickers]
    /\ mk_idx = [th \in MktCallers |-> 1]
    /\ mk_fetched = [th \in MktCallers |-> <<>>]
    /\ upd_time = NoTime
    /\ read_result = <<>>
    /\ cycle_rows = NoRows

\* _fetch_market_data, up to its loop: the clock is read and the tickers of
\* all symbols are fetched
FetchTickers(th, tk) ==
    /\ mk_pc[th] = "idle"
    /\ RoomFor(th)
    /\ mk_time' = [mk_time EXCEPT ![th] = now]
    /\ mk_tickers' = [mk_tickers EXCEPT ![th] = tk]
    /\ mk_idx' = [mk_idx EXCEPT ![th] = 1]
    /\ mk_fetched' = [mk_fetched EXCEPT ![th] = <<>>]
    /\ mk_pc' = [mk_pc EXCEPT ![th] = "fetch"]
    /\ cycle_rows' = CountFrom(th)
    /\ UNCHANGED <<now, notMkt, market_data, upd_time, read_result>>

\* exchange.fetch_tickers raises: _fetch_market_data logs and returns []
FetchTickersRaises(th) ==
    /\ mk_pc[th] = "idle"
    /\ RoomFor(th)
    /\ mk_time' = [mk_time EXCEPT ![th] = now]
    /\ mk_tickers' = [mk_tickers EXCEPT ![th] = NoTickers]
    /\ mk_idx' = [mk_idx EXCEPT ![th] = 1]
    /\ mk_fetched' = [mk_fetched EXCEPT ![th] = <<>>]
    /\ mk_pc' = [mk_pc EXCEPT ![th] = "fetched"]
    /\ cycle_rows' = CountFrom(th)
    /\ UNCHANGED <<now, notMkt, market_data, upd_time, read_result>>

\* one iteration of the loop of _fetch_market_data; after the last symbol
\* the list is returned
FetchSymbol(th) ==
    /\ mk_pc[th] = "fetch"
    /\ LET i == mk_idx[th]
           t == mk_tickers[th][i]
       IN  \E h \in HistoricalData(market_data, symbols[i],
                                   mk_time[th] - 900) :
              LET d == FetchedRow(symbols[i], t, h, mk_time[th])
              IN  /\ IF t.present /\ ValidateMarketData(d)
                     THEN /\ mk_fetched' = [mk_fetched EXCEPT
                                               ![th] = Append(@, d)]
                          /\ market_data' = SaveMarketData(market_data, d)
                          /\ cycle_rows' = Counted(th, i)
                     ELSE UNCHANGED <<mk_fetched, market_data, cycle_rows>>
                  /\ mk_idx' = [mk_idx EXCEPT ![th] = i + 1]
                  /\ mk_pc' = [mk_pc EXCEPT
                                  ![th] = IF i = NumSymbols
                                          THEN "fetched" ELSE "fetch"]
    /\ UNCHANGED <<now, notMkt, mk_time, mk_tickers, upd_time, read_result>>

\* update_market_data after _fetch_market_data returned: False when the
\* list is empty, else the clock is read again
UpdateBegin ==
    /\ mk_pc["poll"] = "fetched"
    /\ IF mk_fetched["poll"] = <<>>
       THEN /\ mk_pc' = [mk_pc EXCEPT !["poll"] = "idle"]
            /\ mk_time' = Returned(mk_time, "poll", NoTime)
            /\ mk_tickers' = Returned(mk_tickers, "poll", NoTickers)
            /\ mk_idx' = Returned(mk_idx, "poll", 1)
            /\ UNCHANGED upd_time
       ELSE /\ mk_pc' = [mk_pc EXCEPT !["poll"] = "update"]
            /\ upd_time' = now
            /\ mk_idx' = [mk_idx EXCEPT !["poll"] = 1]
            /\ UNCHANGED <<mk_time, mk_tickers>>
    /\ UNCHANGED <<now, notMkt, market_data, mk_fetched, read_result,
                   cycle_rows>>

\* one iteration of the loop of update_market_data: the item is saved a
\* second time with the rates computed here; after the last item True is
\* returned
UpdateItem ==
    /\ mk_pc["poll"] = "update"
    /\ LET i == mk_idx["poll"]
           item == mk_fetched["poll"][i]
           last == i = Len(mk_fetched["poll"])
       IN  \E h15 \in HistoricalData(market_data, item.symbol,
                                     upd_time - 900) :
           \E h30 \in HistoricalData(market_data, item.symbol,
                                     upd_time - 1800) :
              /\ market_data' =
                     IF VolumeDivisionFails(h15, h30)
                     THEN market_data
                     ELSE SaveMarketData(market_data,
                              UpdatedItem(item, h15, h30, upd_time))
              /\ cycle_rows' =
                     IF VolumeDivisionFails(h15, h30)
                     THEN cycle_rows
                     ELSE Counted("poll", SymbolIndex(item.symbol))
              /\ IF last
                 THEN /\ mk_pc' = [mk_pc EXCEPT !["poll"] = "idle"]
                      /\ mk_idx' = Returned(mk_idx, "poll", 1)
                      /\ mk_fetched' = Returned(mk_fetched, "poll", <<>>)
                      /\ mk_time' = Returned(mk_time, "poll", NoTime)
                      /\ mk_tickers' = Returned(mk_tickers, "poll", NoTickers)
                      /\ upd_time' = NoTime
                 ELSE /\ mk_idx' = [mk_idx EXCEPT !["poll"] = i + 1]
                      /\ mk_fetched' =
                             [mk_fetched EXCEPT !["poll"][i] =
                                 IF VolumeDivisionFails(h15, h30)
                                 THEN SkippedItem(item, h15, h30, upd_time)
                                 ELSE UpdatedItem(item, h15, h30, upd_time)]
                      /\ UNCHANGED <<mk_pc, mk_time, mk_tickers, upd_time>>
    /\ UNCHANGED <<now, notMkt, read_result>>

\* get_market_data after _fetch_market_data returned: an empty list is
\* replaced by the latest rows of the table, and the list is returned
ReadReturn ==
    /\ mk_pc["read"] = "fetched"
    /\ read_result' = IF mk_fetched["read"] # <<>>
                      THEN mk_fetched["read"]
                      ELSE GetLatestMarketData(market_data)
    /\ mk_pc' = [mk_pc EXCEPT !["read"] = "idle"]
    /\ mk_idx' = Returned(mk_idx, "read", 1)
    /\ mk_fetched' = Returned(mk_fetched, "read", <<>>)
    /\ mk_time' = Returned(mk_time, "read", NoTime)
    /\ mk_tickers' = Returned(mk_tickers, "read", NoTickers)
    /\ UNCHANGED <<now, notMkt, market_data, upd_time, cycle_rows>>

\* time passes
MktTick ==
    /\ now + MktTimeStep <= MktMaxTime
    /\ now' = now + MktTimeStep
    /\ UNCHANGED <<notMkt, monVars>>

(***************************************************************************)
(* Database.cleanup_old_data, run by the cleanup task of MarketMonitor, and *)
(* the queries of table market_data.  The clock of these runs starts at    *)
(* RetEpoch, so that a time in seconds is below every time in milliseconds. *)
(***************************************************************************)
RetEpoch == 100000

RetMaxTime == RetEpoch + RetHours * RetTimeStep

\* timedelta(hours=4), in seconds
RetentionSeconds == 14400

RetIdle ==
    /\ last_cleanup = NoTime
    /\ query_time = NoTime
    /\ query_result = <<>>

\* the polling loop stores a point of symbol i: Database.save_market_data
StorePoint(i) ==
    /\ Len(market_data) < RetMaxRows
    /\ market_data' = SaveMarketData(market_data,
                          [symbol |-> symbols[i], price |-> 100,
                           volume |-> 50, price_change_15m |-> 0,
                           volume_change_15m |-> 0, timestamp |-> now])
    /\ UNCHANGED <<now, notRet, retVars>>

\* one round of cleanup_task: check_data_integrity reads, cleanup_old_data
\* deletes FROM spot_market_data and FROM market_alerts (or raises, when
\* table spot_market_data does not exist, which is caught), optimize_db
\* rebuilds indexes; no statement of the round names table market_data
CleanupTask ==
    /\ running
    /\ last_cleanup' = now
    /\ UNCHANGED <<now, notRet, market_data, query_time, query_result>>

\* Database.get_latest_market_data()
QueryLatest ==
    /\ query_result' = GetLatestMarketData(market_data)
    /\ query_time' = now
    /\ UNCHANGED <<now, notRet, market_data, last_cleanup>>

\* Database.get_historical_data(symbol, now - 900), as the monitor calls it
QueryHistorical(i) ==
    /\ \E h \in HistoricalData(market_data, symbols[i], now - 900) :
          query_result' = IF h = NoRow THEN <<>> ELSE <<h>>
    /\ query_time' = now
    /\ UNCHANGED <<now, notRet, market_data, last_cleanup>>

\* MarketDatabase.get_latest_data(): WHERE timestamp >= the time four hours
\* ago in milliseconds
QueryLatestData ==
    /\ query_result' =
           SelectSeq(market_data,
                     LAMBDA d : d.timestamp >= (now - RetentionSeconds) * 1000)
    /\ query_time' = now
    /\ UNCHANGED <<now, notRet, market_data, last_cleanup>>

\* time passes
RetTick ==
    /\ now + RetTimeStep <= RetMaxTime
    /\ now' = now + RetTimeStep
    /\ UNCHANGED <<notMon, monVars>>

(***************************************************************************)
(* MarketMonitor.start, stop and _update_loop.  An update thread is at     *)
(* "test_event" (the while test), "test_running" (the if test), "cycle"    *)
(* (inside update_market_data), "wait" (the 60 one-second sleeps) or       *)
(* "dead"; "unborn" before it is started.                                  *)
(***************************************************************************)
UpdateThreads == 1..MaxThreads

IsAlive(t) == thr_pc[t] \notin {"unborn", "dead"}

\* after __init__, which calls start()
LifeIdle ==
    /\ running = TRUE
    /\ stop_event = FALSE
    /\ update_thread = 1
    /\ thr_pc = [t \in UpdateThreads |-> IF t = 1 THEN "test_event" ELSE "unborn"]
    /\ stop_pc = "idle"
    /\ joins = 0
    /\ db_closed = FALSE

\* start(): a new thread when the monitor is not running
Start ==
    /\ stop_pc = "idle"
    /\ ~running
    /\ update_thread < MaxThreads
    /\ running' = TRUE
    /\ stop_event' = FALSE
    /\ update_thread' = update_thread + 1
    /\ thr_pc' = [thr_pc EXCEPT ![update_thread + 1] = "test_event"]
    /\ UNCHANGED <<now, notLife, stop_pc, joins, db_closed>>

\* stop(): if self.running: self.running = False
StopBegin ==
    /\ stop_pc = "idle"
    /\ running
    /\ running' = FALSE
    /\ joins' = 0
    /\ stop_pc' = "set_event"
    /\ UNCHANGED <<now, notLife, stop_event, update_thread, thr_pc, db_closed>>

\* self._stop_event.set()
StopSetEvent ==
    /\ stop_pc = "set_event"
    /\ stop_event' = TRUE
    /\ stop_pc' = "check_alive"
    /\ UNCHANGED <<now, notLife, running, update_thread, thr_pc, joins,
                   db_closed>>

\* if self.update_thread and self.update_thread.is_alive()
StopCheckAlive ==
    /\ stop_pc = "check_alive"
    /\ stop_pc' = IF IsAlive(update_thread) THEN "join" ELSE "close"
    /\ UNCHANGED <<now, notLife, running, stop_event, update_thread, thr_pc,
                   joins, db_closed>>

\* join(timeout=1) returns because the thread ended
StopJoined ==
    /\ stop_pc = "join"
    /\ ~IsAlive(update_thread)
    /\ stop_pc' = "close"
    /\ UNCHANGED <<now, notLife, running, stop_event, update_thread, thr_pc,
                   joins, db_closed>>

\* join(timeout=1) times out: the thread is still inside its cycle; after
\* the fifth time the wait is given up
StopJoinTimesOut ==
    /\ stop_pc = "join"
    /\ thr_pc[update_thread] = "cycle"
    /\ joins' = joins + 1
    /\ stop_pc' = IF joins + 1 = 5 THEN "close" ELSE "join"
    /\ UNCHANGED <<now, notLife, running, stop_event, update_thread, thr_pc,
                   db_closed>>

\* self.db.close(), then stop() returns
StopClose ==
    /\ stop_pc = "close"
    /\ db_closed' = TRUE
    /\ stop_pc' = "idle"
    /\ UNCHANGED <<now, notLife, running, stop_event, update_thread, thr_pc,
                   joins>>

\* while not self._stop_event.is_set()
TestEvent(t) ==
    /\ thr_pc[t] = "test_event"
    /\ thr_pc' = [thr_pc EXCEPT
                     ![t] = IF stop_event THEN "dead" ELSE "test_running"]
    /\ UNCHANGED <<now, notLife, running, stop_event, update_thread, stop_pc,
                   joins, db_closed>>

\* Faulty variant: the loop does not look at self.running.
TestRunningIgnored(t) ==
    /\ thr_pc[t] = "test_running"
    /\ thr_pc' = [thr_pc EXCEPT ![t] = "cycle"]
    /\ UNCHANGED <<now, notLife, running, stop_event, update_thread, stop_pc,
                   joins, db_closed>>

\* if not self.running: break;  else update_market_data() begins
TestRunning(t) ==
    /\ thr_pc[t] = "test_running"
    /\ thr_pc' = [thr_pc EXCEPT ![t] = IF running THEN "cycle" ELSE "dead"]
    /\ UNCHANGED <<now, notLife, running, stop_event, update_thread, stop_pc,
                   joins, db_closed>>

\* update_market_data() returns
CycleEnds(t) ==
    /\ thr_pc[t] = "cycle"
    /\ thr_pc' = [thr_pc EXCEPT ![t] = "wait"]
    /\ UNCHANGED <<now, notLife, running, stop_event, update_thread, stop_pc,
                   joins, db_closed>>

\* the waiting loop ends: after 60 sleeps, or at the first of its tests that
\* sees the stop event set or self.running false
WaitEnds(t) ==
    /\ thr_pc[t] = "wait"
    /\ thr_pc' = [thr_pc EXCEPT ![t] = "test_event"]
    /\ UNCHANGED <<now, notLife, running, stop_event, update_thread, stop_pc,
                   joins, db_closed>>

\* a step of update thread t
ThreadStep(t) ==
    \/ TestEvent(t)
    \/ TestRunning(t)
    \/ CycleEnds(t)
    \/ WaitEnds(t)

(***************************************************************************)
(* OKXOptionMonitor: the two background tasks started by __init__ and      *)
(* stop().                                                                 *)
(***************************************************************************)
OkxTasks == {"update", "sync"}

\* time.sleep after a cycle that returned: 900 in update_task, 300 in
\* sync_task
CycleSleep(task) == IF task = "update" THEN 900 ELSE 300

\* time.sleep after a cycle that raised: 5 in update_task, 60 in sync_task
ErrorSleep(task) == IF task = "update" THEN 5 ELSE 60

\* after __init__: both threads are started and about to run a first cycle
OkxIdle ==
    /\ okx_pc = [task \in OkxTasks |-> "ready"]
    /\ okx_wake = [task \in OkxTasks |-> 0]
    /\ okx_cycles = [task \in OkxTasks |-> 0]
    /\ okx_stopped = FALSE

\* one iteration of `while True`: the cycle (update_option_data, or
\* check_status and sync_data) runs and the task goes to sleep
TaskCycle(task, raised) ==
    /\ okx_pc[task] = "ready"
    /\ okx_cycles' = [okx_cycles EXCEPT ![task] = @ + 1]
    /\ okx_wake' = [okx_wake EXCEPT
                       ![task] = now + IF raised THEN ErrorSleep(task)
                                       ELSE CycleSleep(task)]
    /\ okx_pc' = [okx_pc EXCEPT ![task] = "sleep"]
    /\ UNCHANGED <<now, notOkx, okx_stopped>>

\* time.sleep returns and the loop goes round
TaskWake(task) ==
    /\ okx_pc[task] = "sleep"
    /\ now >= okx_wake[task]
    /\ okx_pc' = [okx_pc EXCEPT ![task] = "ready"]
    /\ UNCHANGED <<now, notOkx, okx_wake, okx_cycles, okx_stopped>>

\* stop(): logs and returns True
OkxStop ==
    /\ okx_stopped' = TRUE
    /\ UNCHANGED <<now, notOkx, okx_pc, okx_wake, okx_cycles>>

\* time passes
OkxTick ==
    /\ now + OkxTimeStep <= OkxMaxTime
    /\ now' = now + OkxTimeStep
    /\ UNCHANGED <<notMon, monVars>>

(***************************************************************************)
(* OKXOptionMonitor.log_error for one error key, called by one caller at a *)
(* time.                                                                   *)
(***************************************************************************)
LOG_INTERVAL == 300    \* self.log_interval

\* messages logged under the key
ErrorMessages == {"A", "B"}

\* error_key not in self.error_cache
NoEntry == [msg |-> "", time |-> NoTime, count |-> 0]

LogIdle ==
    /\ error_cache = NoEntry
    /\ log_lines = <<>>

\* error_key in self.error_cache and last_error['msg'] == error_msg and
\* current_time - last_error['time'] < self.log_interval
Repeated(error_msg) ==
    /\ error_cache # NoEntry
    /\ error_cache.msg = error_msg
    /\ now - error_cache.time < LOG_INTERVAL

\* log_error(error_key, error_msg)
LogError(error_msg) ==
    /\ IF Repeated(error_msg)
       THEN /\ error_cache.count < MaxLogCount
            /\ error_cache' = [error_cache EXCEPT !.count = @ + 1]
            /\ UNCHANGED log_lines
       ELSE /\ Len(log_lines) < MaxLogLines
            /\ error_cache' = [msg |-> error_msg, time |-> now, count |-> 1]
            /\ log_lines' = Append(log_lines, [msg |-> error_msg, time |-> now])
    /\ UNCHANGED <<now, notLog>>

\* time passes
LogTick ==
    /\ now + LogTimeStep <= LogMaxTime
    /\ now' = now + LogTimeStep
    /\ UNCHANGED <<notMon, monVars>>

(***************************************************************************)
(* Connection pool: ConnectionPool and Database.execute_with_connection.   *)
(* The pool is a queue.Queue: get_connection blocks while it is empty.     *)
(* An operation is "plain" (one unit of work) or "nested"                  *)
(* (get_market_depth_with_metrics, whose unit of work calls                *)
(* get_market_depth, a second unit of work, while it holds its own         *)
(* connection).                                                            *)
(***************************************************************************)
PoolCallers == 1..MaxPoolCallers

DbOps == {"plain", "nested"}

\* ConnectionPool.__init__ puts max_connections connections in the queue
PoolIdle ==
    /\ pool_size = MaxConnections
    /\ held = [c \in PoolCallers |-> 0]
    /\ db_pc = [c \in PoolCallers |-> "idle"]
    /\ db_op = [c \in PoolCallers |-> "plain"]
    /\ db_result = [c \in PoolCallers |-> "none"]
    /\ close_pc = "idle"
    /\ closed_conns = 0

\* a caller enters an operation built on execute_with_connection
CallOperation(c, op) ==
    /\ db_pc[c] = "idle"
    /\ db_pc' = [db_pc EXCEPT ![c] = "get"]
    /\ db_op' = [db_op EXCEPT ![c] = op]
    /\ db_result' = [db_result EXCEPT ![c] = "none"]
    /\ UNCHANGED <<now, pool_size, held, close_pc, closed_conns, notPool>>

\* conn = self.pool.get_connection(): self.connections.get() returns once the
\* queue holds a connection
GetConnection(c) ==
    /\ db_pc[c] \in {"get", "get_inner"}
    /\ pool_size > 0
    /\ pool_size' = pool_size - 1
    /\ held' = [held EXCEPT ![c] = @ + 1]
    /\ db_pc' = [db_pc EXCEPT ![c] = IF db_pc[c] = "get" THEN "func"
                                                          ELSE "func_inner"]
    /\ UNCHANGED <<now, db_op, db_result, close_pc, closed_conns, notPool>>

\* get_market_depth_with_metrics._get_data: bids, asks =
\* self.get_market_depth(symbol), a second execute_with_connection
CallInner(c) ==
    /\ db_pc[c] = "func"
    /\ db_op[c] = "nested"
    /\ db_pc' = [db_pc EXCEPT ![c] = "get_inner"]
    /\ UNCHANGED <<now, pool_size, held, db_op, db_result, close_pc,
                   closed_conns, notPool>>

\* Faulty variant: the connection is returned after func(conn) instead of in
\* a finally clause, so a unit of work that raises keeps it.
UnitEndsNoFinally(c, raised) ==
    /\ db_pc[c] \in {"func", "func_inner", "func_rest"}
    /\ pool_size' = IF raised THEN pool_size ELSE pool_size + 1
    /\ held' = IF raised THEN held ELSE [held EXCEPT ![c] = @ - 1]
    /\ IF db_pc[c] = "func_inner"
       THEN /\ db_pc' = [db_pc EXCEPT ![c] = "func_rest"]
            /\ UNCHANGED db_result
       ELSE /\ db_pc' = [db_pc EXCEPT ![c] = "idle"]
            /\ db_result' = [db_result EXCEPT
                               ![c] = IF raised THEN "raised" ELSE "returned"]
    /\ UNCHANGED <<now, db_op, close_pc, closed_conns, notPool>>

\* func(conn) returns or raises; finally: self.pool.return_connection(conn).
\* An inner unit of work ends inside the outer one, whose except clause
\* catches what it raises.
UnitEnds(c, raised) ==
    /\ db_pc[c] \in {"func", "func_inner", "func_rest"}
    /\ pool_size' = pool_size + 1
    /\ held' = [held EXCEPT ![c] = @ - 1]
    /\ IF db_pc[c] = "func_inner"
       THEN /\ db_pc' = [db_pc EXCEPT ![c] = "func_rest"]
            /\ UNCHANGED db_result
       ELSE /\ db_pc' = [db_pc EXCEPT ![c] = "idle"]
            /\ db_result' = [db_result EXCEPT
                               ![c] = IF raised THEN "raised" ELSE "returned"]
    /\ UNCHANGED <<now, db_op, close_pc, closed_conns, notPool>>

\* Database.close() is called
CloseBegin ==
    /\ close_pc = "idle"
    /\ close_pc' = "check"
    /\ UNCHANGED <<now, pool_size, held, db_pc, db_op, db_result,
                   closed_conns, notPool>>

\* close_all: while not self.connections.empty()
CloseCheck ==
    /\ close_pc = "check"
    /\ close_pc' = IF pool_size = 0 THEN "done" ELSE "get"
    /\ UNCHANGED <<now, pool_size, held, db_pc, db_op, db_result,
                   closed_conns, notPool>>

\* close_all: conn = self.connections.get(); conn.close()
CloseGet ==
    /\ close_pc = "get"
    /\ pool_size > 0
    /\ pool_size' = pool_size - 1
    /\ closed_conns' = closed_conns + 1
    /\ close_pc' = "check"
    /\ UNCHANGED <<now, held, db_pc, db_op, db_result, notPool>>

(***************************************************************************)
(* OptionDatabase: save_market_data and calculate_market_indicators, which *)
(* both run under self.lock, a threading.Lock (not reentrant).  The        *)
(* "saver" thread calls save_market_data on one batch; the "direct" thread *)
(* calls calculate_market_indicators on its own.                           *)
(***************************************************************************)
OdbCallers == {"saver", "direct"}

MAX_DATA_AGE == 300    \* time_diff.total_seconds() > 300

\* items of a batch: whether the four required fields are present, their
\* values, and the age of the timestamp in seconds
OptionItems ==
    { [fields |-> TRUE, price |-> 10, underlying_price |-> 100, volume |-> 0,
       iv |-> 50, age |-> 300],
      [fields |-> FALSE, price |-> 10, underlying_price |-> 100, volume |-> 0,
       iv |-> 50, age |-> 0],
      [fields |-> TRUE, price |-> 0, underlying_price |-> 100, volume |-> 5,
       iv |-> 50, age |-> 0],
      [fields |-> TRUE, price |-> 10, underlying_price |-> 100, volume |-> -1,
       iv |-> 50, age |-> 0],
      [fields |-> TRUE, price |-> 10, underlying_price |-> 100, volume |-> 5,
       iv |-> 500, age |-> 0],
      [fields |-> TRUE, price |-> 10, underlying_price |-> 100, volume |-> 5,
       iv |-> 50, age |-> 301] }

OptionBatches ==
    UNION { [1..n -> OptionItems] : n \in 0..MaxOptBatch }

\* validate_market_data(market_data)
ValidateOptionData(d) ==
    /\ d.fields
    /\ ~(d.price <= 0 \/ d.underlying_price <= 0)
    /\ ~(d.volume < 0)
    /\ (0 < d.iv /\ d.iv < 500)
    /\ ~(d.age > MAX_DATA_AGE)

OdbIdle ==
    /\ odb_lock = "free"
    /\ odb_pc = [t \in OdbCallers |-> "idle"]
    /\ market_data_list = <<>>
    /\ odb_idx = 0
    /\ updated = {}
    /\ option_market_data = {}
    /\ save_result = "none"
    /\ indicator_calls = 0

\* save_market_data: with self.lock, sqlite3.connect(self.db_path) as conn
SaveAcquire ==
    /\ odb_pc["saver"] = "idle"
    /\ save_result = "none"
    /\ odb_lock = "free"
    /\ odb_lock' = "saver"
    /\ odb_pc' = [odb_pc EXCEPT !["saver"] = "loop"]
    /\ odb_idx' = 1
    /\ UNCHANGED <<now, market_data_list, updated, option_market_data,
                   save_result, indicator_calls, notOdb>>

\* for market_data in market_data_list: an invalid item is passed over
\* (continue), a valid one calls calculate_market_indicators
SaveItem ==
    /\ odb_pc["saver"] = "loop"
    /\ odb_idx <= Len(market_data_list)
    /\ IF ValidateOptionData(market_data_list[odb_idx])
       THEN /\ odb_pc' = [odb_pc EXCEPT !["saver"] = "indicators_wait"]
            /\ UNCHANGED odb_idx
       ELSE /\ odb_idx' = odb_idx + 1
            /\ UNCHANGED odb_pc
    /\ UNCHANGED <<now, odb_lock, market_data_list, updated,
                   option_market_data, save_result, indicator_calls, notOdb>>

\* calculate_market_indicators is called from outside save_market_data
IndicatorsCall ==
    /\ odb_pc["direct"] = "idle"
    /\ indicator_calls < MaxDirectCalls
    /\ indicator_calls' = indicator_calls + 1
    /\ odb_pc' = [odb_pc EXCEPT !["direct"] = "indicators_wait"]
    /\ UNCHANGED <<now, odb_lock, market_data_list, odb_idx, updated,
                   option_market_data, save_result, notOdb>>

\* calculate_market_indicators: with self.lock, which waits until the lock
\* is free, whoever holds it
IndicatorsAcquire(t) ==
    /\ odb_pc[t] = "indicators_wait"
    /\ odb_lock = "free"
    /\ odb_lock' = t
    /\ odb_pc' = [odb_pc EXCEPT ![t] = "indicators"]
    /\ UNCHANGED <<now, market_data_list, odb_idx, updated,
                   option_market_data, save_result, indicator_calls, notOdb>>

\* calculate_market_indicators returns the indicators (or the defaults) and
\* leaves the with block; in save_market_data: market_data.update(indicators)
IndicatorsReturn(t) ==
    /\ odb_pc[t] = "indicators"
    /\ odb_lock' = "free"
    /\ IF t = "saver"
       THEN /\ updated' = updated \cup {odb_idx}
            /\ odb_idx' = odb_idx + 1
            /\ odb_pc' = [odb_pc EXCEPT ![t] = "loop"]
       ELSE /\ odb_pc' = [odb_pc EXCEPT ![t] = "idle"]
            /\ UNCHANGED <<updated, odb_idx>>
    /\ UNCHANGED <<now, market_data_list, option_market_data, save_result,
                   indicator_calls, notOdb>>

\* the tuple of the INSERT can be built for the item: data['price'],
\* data['volume_change_15m'], ... are present
HasInsertKeys(i) ==
    /\ market_data_list[i].fields
    /\ i \in updated

\* cursor.executemany over every item of market_data_list; conn.commit();
\* return True.  A missing key raises KeyError before anything is inserted:
\* except Exception: return False.  Either way the with block releases the
\* lock.
SaveInsert ==
    /\ odb_pc["saver"] = "loop"
    /\ odb_idx > Len(market_data_list)
    /\ IF \A i \in 1..Len(market_data_list) : HasInsertKeys(i)
       THEN /\ option_market_data' = 1..Len(market_data_list)
            /\ save_result' = "True"
       ELSE /\ UNCHANGED option_market_data
            /\ save_result' = "False"
    /\ odb_lock' = "free"
    /\ odb_pc' = [odb_pc EXCEPT !["saver"] = "idle"]
    /\ UNCHANGED <<now, market_data_list, odb_idx, updated, indicator_calls,
                   notOdb>>

(***************************************************************************)
(* OptionAPI._retry_request: func is tried up to max_retries times, with   *)
(* a sleep of (2 ** attempt) * delay plus a jitter between the attempts.   *)
(***************************************************************************)
DefaultRetries == 3     \* max_retries: int = 3
DefaultDelay == 1       \* delay: float = 1.0

\* the delays the callers pass: the default and get_option_chain's 2.0
RetryDelays == {DefaultDelay, 2}

\* (2 ** attempt) * delay
RetryWait(a, d) == (2 ^ a) * d

RetryIdle ==
    /\ retry_max = DefaultRetries
    /\ retry_delay = DefaultDelay
    /\ retry_pc = "idle"
    /\ retry_attempt = 0
    /\ retry_waits = <<>>
    /\ retry_result = "pending"

\* for attempt in range(max_retries); with no attempt the function falls off
\* its end and returns None
RetryBegin ==
    /\ retry_pc = "idle"
    /\ retry_pc' = IF retry_max > 0 THEN "loop" ELSE "done"
    /\ retry_result' = IF retry_max > 0 THEN retry_result ELSE "None"
    /\ UNCHANGED <<now, retry_max, retry_delay, retry_attempt, retry_waits,
                   notRetry>>

\* return func(...)
RetryOk ==
    /\ retry_pc = "loop"
    /\ retry_pc' = "done"
    /\ retry_result' = "value"
    /\ UNCHANGED <<now, retry_max, retry_delay, retry_attempt, retry_waits,
                   notRetry>>

\* func raised and attempts remain: sleep the backoff plus the jitter j
RetryFails(j) ==
    /\ retry_pc = "loop"
    /\ retry_attempt # retry_max - 1
    /\ retry_waits' = Append(retry_waits,
                             [attempt |-> retry_attempt,
                              wait |-> RetryWait(retry_attempt, retry_delay)])
    /\ now' = now + RetryWait(retry_attempt, retry_delay) + j
    /\ retry_attempt' = retry_attempt + 1
    /\ UNCHANGED <<retry_max, retry_delay, retry_pc, retry_result, notRetry>>

\* func raised on the last attempt: raise
RetryLastRaises ==
    /\ retry_pc = "loop"
    /\ retry_attempt = retry_max - 1
    /\ retry_pc' = "done"
    /\ retry_result' = "raised"
    /\ UNCHANGED <<now, retry_max, retry_delay, retry_attempt, retry_waits,
                   notRetry>>

(***************************************************************************)
(* OptionMonitor._check_rate_limit for one endpoint, called by one thread, *)
(* one call after the other.  The clock moves in seconds.                  *)
(***************************************************************************)
REQUEST_INTERVAL == 2    \* self.request_interval

OptIdle ==
    /\ opt_last_request_time = NoTime
    /\ request_starts = <<>>

\* time.sleep(self.request_interval - time_passed) when the last recorded
\* request is less than request_interval old, else nothing
OptSleep ==
    IF /\ opt_last_request_time # NoTime
       /\ now - opt_last_request_time < REQUEST_INTERVAL
    THEN REQUEST_INTERVAL - (now - opt_last_request_time)
    ELSE 0

\* _check_rate_limit(endpoint): current_time is read before the sleep and
\* recorded after it; the request begins when the call returns
CheckRateLimit ==
    /\ Len(request_starts) < MaxOptRequests
    /\ now + OptSleep <= OptMaxTime
    /\ now' = now + OptSleep
    /\ opt_last_request_time' = now
    /\ request_starts' = Append(request_starts, now')
    /\ UNCHANGED notOpt

\* time passes between two calls
OptTick ==
    /\ now + 1 <= OptMaxTime
    /\ now' = now + 1
    /\ UNCHANGED <<notMon, monVars>>

(***************************************************************************)
(* Specifications.                                                         *)
(***************************************************************************)
\* the market monitors have no call in progress and an empty table
MonitorsIdle ==
    /\ MktIdle
    /\ RetIdle
    /\ LifeIdle
    /\ OkxIdle
    /\ LogIdle
    /\ PoolIdle
    /\ OdbIdle
    /\ RetryIdle
    /\ OptIdle

RateInit ==
    /\ now = 0
    /\ \E l \in Limiters : min_interval = l[1] /\ jitter = l[2]
    /\ RateCallsIdle
    /\ PriceIdle
    /\ AggIdle
    /\ ReqIdle
    /\ AnomIdle
    /\ MonitorsIdle

\* One caller making sequential calls.
RateSeqNext ==
    \/ ReadClock(1)
    \/ CheckElapsed(1)
    \/ WakeUp(1)
    \/ RecordCall(1)
    \/ RateTick

SpecRateSeq == RateInit /\ [][RateSeqNext]_vars

\* Two callers sharing the key.
RateConcNext ==
    \/ \E t \in Threads : ReadClock(t)
    \/ \E t \in Threads : CheckElapsed(t)
    \/ \E t \in Threads : WakeUp(t)
    \/ \E t \in Threads : RecordCall(t)
    \/ RateTick

SpecRateConc == RateInit /\ [][RateConcNext]_vars

PriceInit ==
    /\ now = 0
    /\ RateIdle
    /\ exchange_weights \in WeightConfigs
    /\ tickers \in Quotes(1) \X Quotes(2) \X Quotes(3) \X Quotes(4)
                      \X Quotes(5) \X Quotes(6) \X Quotes(7) \X Quotes(8)
    /\ prices = <<>>
    /\ weights = <<>>
    /\ spot_result = NoResult
    /\ px_pc = "input"
    /\ AggIdle
    /\ ReqIdle
    /\ AnomIdle
    /\ MonitorsIdle

\* get_spot_price with every exchange out of cool-down: the loop appends the
\* usable prices and their weights, then the consensus is returned
SpotPriceOfTickers ==
    /\ px_pc = "input"
    /\ prices' = FilterIdx(tickers, Usable(tickers), 1)
    /\ weights' = FilterIdx(exchange_weights, Usable(tickers), 1)
    /\ spot_result' = ConsensusPrice(prices', weights')
    /\ px_pc' = "done"
    /\ UNCHANGED <<now, notPrice, exchange_weights, tickers>>

PriceNext == SpotPriceOfTickers

SpecPrice == PriceInit /\ [][PriceNext]_vars

AggInit ==
    /\ now = 0
    /\ RateIdle
    /\ PriceIdle
    /\ AggIdle
    /\ ReqIdle
    /\ AnomIdle
    /\ MonitorsIdle

AggNext ==
    \/ SpotBegin
    \/ LoopSkip
    \/ \E e \in AggIds : SpotPrice(e, QuoteA[e])
    \/ \E e \in AggIds : SpotEmpty(e)
    \/ \E e \in AggIds : SpotRaise(e)
    \/ SpotReturn
    \/ KlinesBegin
    \/ \E e \in AggIds : \E n \in 0..MaxBars : KlinesSeries(e, n)
    \/ \E e \in AggIds : KlinesUnsupported(e)
    \/ \E e \in AggIds : KlinesRaise(e)
    \/ KlinesReturn
    \/ AggTick

SpecAgg == AggInit /\ [][AggNext]_vars

ReqInit ==
    /\ now = 0
    /\ RateIdle
    /\ PriceIdle
    /\ AggIdle
    /\ max_retries \in 0..MaxRetriesEnv
    /\ req_pc = "idle"
    /\ attempt = 0
    /\ responses = <<>>
    /\ sleeps = <<>>
    /\ base_waits = <<>>
    /\ req_result = "pending"
    /\ AnomIdle
    /\ MonitorsIdle

ReqNext ==
    \/ ReqBegin
    \/ ReqSetupRaises
    \/ AttemptOk
    \/ \E j \in 0..1 : AttemptRateLimited(j)
    \/ \E o \in Outcomes : AttemptFails(o)
    \/ AttemptRaises
    \/ LastAttemptRaises
    \/ ReqExhausted
    \/ ReqEscapes

SpecReq == ReqInit /\ [][ReqNext]_vars

\* The calling thread keeps running: every HTTP call returns or times out
\* (timeout=10) and every sleep is finite.
SpecReqLive == SpecReq /\ WF_vars(ReqNext)

Batches == UNION {[1..n -> Volumes] : n \in 0..MaxBatch}

AnomInit ==
    /\ now = 0
    /\ RateIdle
    /\ PriceIdle
    /\ AggIdle
    /\ ReqIdle
    /\ volumes \in Batches
    /\ threshold \in Thresholds
    /\ anomalies = <<>>
    /\ an_pc = "input"
    /\ MonitorsIdle

AnomNext == DetectAnomalies

SpecAnom == AnomInit /\ [][AnomNext]_vars

MktInit ==
    /\ now = 0
    /\ RateIdle
    /\ PriceIdle
    /\ AggIdle
    /\ ReqIdle
    /\ AnomIdle
    /\ MonitorsIdle

\* The polling loop and one reader, each making its calls one after another.
MktNext ==
    \/ \E th \in MktCallers : \E tk \in TickerResults : FetchTickers(th, tk)
    \/ \E th \in MktCallers : FetchTickersRaises(th)
    \/ \E th \in MktCallers : FetchSymbol(th)
    \/ UpdateBegin
    \/ UpdateItem
    \/ ReadReturn
    \/ MktTick

SpecMkt == MktInit /\ [][MktNext]_vars

OkxInit ==
    /\ now = 0
    /\ RateIdle
    /\ PriceIdle
    /\ AggIdle
    /\ ReqIdle
    /\ AnomIdle
    /\ MonitorsIdle

OkxNext ==
    \/ \E task \in OkxTasks : \E raised \in BOOLEAN : TaskCycle(task, raised)
    \/ \E task \in OkxTasks : TaskWake(task)
    \/ OkxStop
    \/ OkxTick

SpecOkx == OkxInit /\ [][OkxNext]_vars

RetInit ==
    /\ now = RetEpoch
    /\ RateIdle
    /\ PriceIdle
    /\ AggIdle
    /\ ReqIdle
    /\ AnomIdle
    /\ MonitorsIdle

RetNext ==
    \/ \E i \in 1..NumSymbols : StorePoint(i)
    \/ CleanupTask
    \/ QueryLatest
    \/ \E i \in 1..NumSymbols : QueryHistorical(i)
    \/ QueryLatestData
    \/ RetTick

SpecRet == RetInit /\ [][RetNext]_vars

LifeInit ==
    /\ now = 0
    /\ RateIdle
    /\ PriceIdle
    /\ AggIdle
    /\ ReqIdle
    /\ AnomIdle
    /\ MonitorsIdle

LifeNext ==
    \/ Start
    \/ StopBegin
    \/ StopSetEvent
    \/ StopCheckAlive
    \/ StopJoined
    \/ StopJoinTimesOut
    \/ StopClose
    \/ \E t \in UpdateThreads : TestEvent(t)
    \/ \E t \in UpdateThreads : TestRunning(t)
    \/ \E t \in UpdateThreads : CycleEnds(t)
    \/ \E t \in UpdateThreads : WaitEnds(t)

SpecLife == LifeInit /\ [][LifeNext]_vars

\* Every update thread keeps running: update_market_data catches what it
\* raises and returns, and every sleep is finite.
SpecLifeLive == SpecLife /\ \A t \in UpdateThreads : WF_vars(ThreadStep(t))

LogInit ==
    /\ now = 0
    /\ RateIdle
    /\ PriceIdle
    /\ AggIdle
    /\ ReqIdle
    /\ AnomIdle
    /\ MonitorsIdle

LogNext ==
    \/ \E m \in ErrorMessages : LogError(m)
    \/ LogTick

SpecLog == LogInit /\ [][LogNext]_vars

\* Database operations of several threads over one pool, and Database.close
PoolInit ==
    /\ now = 0
    /\ RateIdle
    /\ PriceIdle
    /\ AggIdle
    /\ ReqIdle
    /\ AnomIdle
    /\ MonitorsIdle

PoolNext ==
    \/ \E c \in PoolCallers, op \in DbOps : CallOperation(c, op)
    \/ \E c \in PoolCallers : GetConnection(c)
    \/ \E c \in PoolCallers : CallInner(c)
    \/ \E c \in PoolCallers, raised \in BOOLEAN : UnitEnds(c, raised)
    \/ CloseBegin
    \/ CloseCheck
    \/ CloseGet

SpecPool == PoolInit /\ [][PoolNext]_vars

\* one call of save_market_data on any batch, beside direct calls of
\* calculate_market_indicators
OdbInit ==
    /\ now = 0
    /\ RateIdle
    /\ PriceIdle
    /\ AggIdle
    /\ ReqIdle
    /\ AnomIdle
    /\ MktIdle
    /\ RetIdle
    /\ LifeIdle
    /\ OkxIdle
    /\ LogIdle
    /\ PoolIdle
    /\ RetryIdle
    /\ OptIdle
    /\ odb_lock = "free"
    /\ odb_pc = [t \in OdbCallers |-> "idle"]
    /\ market_data_list \in OptionBatches
    /\ odb_idx = 0
    /\ updated = {}
    /\ option_market_data = {}
    /\ save_result = "none"
    /\ indicator_calls = 0

OdbNext ==
    \/ SaveAcquire
    \/ SaveItem
    \/ SaveInsert
    \/ IndicatorsCall
    \/ \E t \in OdbCallers : IndicatorsAcquire(t)
    \/ \E t \in OdbCallers : IndicatorsReturn(t)

SpecOdb == OdbInit /\ [][OdbNext]_vars

\* every step of save_market_data and of calculate_market_indicators that can
\* be taken is eventually taken
SpecOdbLive ==
    /\ SpecOdb
    /\ WF_vars(SaveAcquire)
    /\ WF_vars(SaveItem)
    /\ WF_vars(SaveInsert)
    /\ \A t \in OdbCallers : WF_vars(IndicatorsAcquire(t))
    /\ \A t \in OdbCallers : WF_vars(IndicatorsReturn(t))

\* one call of OKXOptionMonitor._request and one of OptionAPI._retry_request
BackoffInit ==
    /\ now = 0
    /\ RateIdle
    /\ PriceIdle
    /\ AggIdle
    /\ max_retries \in 0..MaxRetriesEnv
    /\ req_pc = "idle"
    /\ attempt = 0
    /\ responses = <<>>
    /\ sleeps = <<>>
    /\ base_waits = <<>>
    /\ req_result = "pending"
    /\ AnomIdle
    /\ MktIdle
    /\ RetIdle
    /\ LifeIdle
    /\ OkxIdle
    /\ LogIdle
    /\ PoolIdle
    /\ OdbIdle
    /\ OptIdle
    /\ retry_max \in 0..MaxRetriesEnv
    /\ retry_delay \in RetryDelays
    /\ retry_pc = "idle"
    /\ retry_attempt = 0
    /\ retry_waits = <<>>
    /\ retry_result = "pending"

BackoffNext ==
    \/ ReqNext
    \/ RetryBegin
    \/ RetryOk
    \/ \E j \in 0..1 : RetryFails(j)
    \/ RetryLastRaises

SpecBackoff == BackoffInit /\ [][BackoffNext]_vars

\* calls of OptionMonitor._check_rate_limit for one endpoint
OptInit ==
    /\ now = 0
    /\ RateIdle
    /\ PriceIdle
    /\ AggIdle
    /\ ReqIdle
    /\ AnomIdle
    /\ MonitorsIdle

OptNext ==
    \/ CheckRateLimit
    \/ OptTick

SpecOpt == OptInit /\ [][OptNext]_vars

(***************************************************************************)
(* Claims.                                                                 *)
(***************************************************************************)
\* C1: with one caller calling sequentially, two consecutive recorded call
\* times of the key are at least min_interval apart.
C1_SequentialSpacing ==
    prev_recorded # NoTime => last_request_time - prev_recorded >= min_interval

\* A second call has been recorded after it had to sleep.
C1_Witness ==
    /\ prev_recorded # NoTime
    /\ rl_pc[1] = "idle"
    /\ sleep_until[1] > prev_recorded
    /\ last_request_time = prev_recorded + min_interval

\* C2: with concurrent callers on one key, the recorded call times of the key
\* are never closer together than min_interval.
C2_ConcurrentSpacing ==
    \/ prev_recorded = NoTime
    \/ last_request_time >= prev_recorded + min_interval

\* the sum of f[i] over the positions i of the set I
RECURSIVE SumOver(_, _)
SumOver(I, f) ==
    IF I = {} THEN 0
    ELSE LET i == CHOOSE x \in I : TRUE IN f[i] + SumOver(I \ {i}, f)

\* the five literal sources 100, 101, 99, 102 and 1000, all of weight 1.0
FiveSourcesCase ==
    /\ px_pc = "done"
    /\ exchange_weights = UnitWeights
    /\ tickers = <<200, 202, 198, 204, 2000, 0, 0, 0>>

\* C4 as stated: with sources 100, 101, 99, 102 and 1000 of weight 1.0 the
\* price 1000 is rejected and the result is 100.5.
C4_OutlierExcluded ==
    FiveSourcesCase =>
        /\ prices = <<200, 202, 198, 204>>
        /\ spot_result[1] = 201 * spot_result[2]

\* C4 as amended: with sources 100, 101, 99, 102 and 1000 of weight 1.0 no
\* price lies more than two sample standard deviations from the mean, all
\* five are retained and the result is their average 280.4.
C4_NoPriceExcluded ==
    FiveSourcesCase =>
        /\ KeptPositions(prices) = 1..5
        /\ 5 * spot_result[1] = 2804 * spot_result[2]

C4_Witness == FiveSourcesCase /\ spot_result # NoResult

\* the positions of tickers that the outlier filter retains
RetainedSources ==
    LET U == Usable(tickers)
        kept == {i \in U : \E k \in KeptPositions(prices) :
                     k = Cardinality({j \in U : j <= i})}
    IN  IF Cardinality(U) >= 4 /\ kept # {} THEN kept ELSE U

\* C5: two or more successful sources give sum(price * weight) / sum(weight)
\* over the retained sources; 101.0, 100.0 and 99.5 with weights 1.0, 1.0
\* and 0.8 give (101 + 100 + 99.5 * 0.8) / 2.8; a single successful source
\* gives its own price.
C5_WeightedAverage ==
    px_pc = "done" =>
        /\ Cardinality(Usable(tickers)) = 1 =>
              \E i \in Usable(tickers) : spot_result = <<tickers[i], 1>>
        /\ Cardinality(Usable(tickers)) >= 2 =>
              /\ spot_result[2] > 0
              /\ spot_result[1] * SumOver(RetainedSources, exchange_weights)
                    = spot_result[2] * SumOver(RetainedSources,
                          [i \in 1..NumExchanges |->
                              tickers[i] * exchange_weights[i]])
        /\ (tickers = <<202, 200, 0, 199, 0, 0, 0, 0>>
                /\ exchange_weights = DefaultWeights) =>
              spot_result[1] * 28 = spot_result[2] * (202 * 10 + 200 * 10 + 199 * 8)

\* The three literal sources were averaged with their weights.
C5_Witness ==
    /\ px_pc = "done"
    /\ tickers = <<202, 200, 0, 199, 0, 0, 0, 0>>
    /\ exchange_weights = DefaultWeights
    /\ spot_result = <<5612, 28>>

\* C3: when no exchange yielded a usable price (all failed, were skipped or
\* returned no last price), get_spot_price returns a failure signal, not a
\* number.
C3_FailureSignal ==
    (agg_pc = "idle" /\ spot_result # NoResult /\ prices = <<>>)
        => spot_result = NotANumber

\* the loop iteration for exchange e takes place in this step
Visits(e) ==
    /\ agg_pc \in {"spot", "klines"}
    /\ agg_idx = e
    /\ agg_idx' = e + 1

\* C6: an exchange whose most recent call raised at time t is not called
\* before t + 300, and an aggregation that reaches it at or after t + 300
\* calls it; an exchange is skipped for no other reason.
C6_CoolDown ==
    [][\A e \in AggIds :
          Visits(e) =>
             /\ (visit'.kind = "call" /\ last_call[e].outcome = "raised")
                    => now >= last_call[e].at + COOLDOWN
             /\ visit'.kind = "skip"
                    => /\ last_call[e].outcome = "raised"
                       /\ now < last_call[e].at + COOLDOWN]_vars

\* An exchange that raised was skipped and then called again, successfully,
\* exactly when its cool-down ended.
C6_Witness ==
    \E e \in AggIds :
        /\ exchange_status[e].last_error # NoTime
        /\ exchange_status[e].status = "ok"
        /\ last_call[e].outcome \in {"price", "series"}
        /\ last_call[e].at = exchange_status[e].last_error + COOLDOWN

\* C7: every call get_spot_price makes updates the health record: a usable
\* price sets status ok and error_count 0; an exception or a ticker without
\* a usable last price sets status error, adds one to error_count and sets
\* last_error to the current time.
C7_HealthUpdated ==
    [][\A e \in AggIds :
          (Visits(e) /\ agg_pc = "spot" /\ visit'.kind = "call") =>
             IF visit'.outcome = "price"
             THEN /\ exchange_status'[e].status = "ok"
                  /\ exchange_status'[e].error_count = 0
             ELSE /\ exchange_status'[e].status = "error"
                  /\ exchange_status'[e].error_count
                        = exchange_status[e].error_count + 1
                  /\ exchange_status'[e].last_error = now']_vars

\* C8: a 4xx status other than 429 ends the request: no attempt and no
\* backoff sleep follows it.
C8_NoRetryOn4xx ==
    \A i \in 1..Len(responses) :
        responses[i] = "4xx" => (i = Len(responses) /\ sleeps[i] = 0)

\* what holds of a request at every moment
RequestBounded ==
    /\ Len(responses) <= max_retries
    /\ req_result \in {"pending", "data", "None"}
    /\ req_pc = "done" <=> req_result # "pending"

Flagged == {anomalies[k].contract_id : k \in 1..Len(anomalies)}

\* the literal batch 10, 10, 10, 10, 1000 under threshold 2.0
OutlierBatchCase ==
    /\ an_pc = "done"
    /\ volumes = <<10, 10, 10, 10, 1000>>
    /\ threshold = DefaultThreshold

\* a batch of two or more equal volumes under threshold 2.0
ConstantBatchCase ==
    /\ an_pc = "done"
    /\ Len(volumes) >= 2
    /\ \A i \in 1..Len(volumes) : volumes[i] = volumes[1]
    /\ threshold = DefaultThreshold

\* C10 as stated: for volumes 10, 10, 10, 10, 1000 and threshold 2.0 the row
\* of value 1000 is reported; for a batch of equal volumes no row is reported.
C10_OutlierFlagged ==
    /\ OutlierBatchCase => 5 \in Flagged
    /\ ConstantBatchCase => anomalies = <<>>

\* C10 as amended: for volumes 10, 10, 10, 10, 1000 and threshold 2.0 the
\* z-score of the row of value 1000 is 1.79, not above 2.0, and no row is
\* reported; for a batch of equal volumes the deviation is 0, every z-score
\* is taken as 0 without dividing, and no row is reported.
C10_OutlierNotFlagged ==
    /\ OutlierBatchCase =>
          /\ anomalies = <<>>
          /\ 5 * ZNum(volumes, 5) = 16 * ScaledSquares(volumes)
    /\ ConstantBatchCase =>
          /\ anomalies = <<>>
          /\ ~StdPositive(volumes)

C10_Witness == OutlierBatchCase

\* the square of the z-score of row i of the batch is above num / den
\* (a deviation of 0, or a single row, gives z = 0)
ZSquaredAbove(i, num, den) ==
    LET n == Len(volumes)
        S == SeqSum(volumes)
        D == n * volumes[i] - S
        Q == ScaledSquares(volumes)
    IN  /\ n >= 2
        /\ Q > 0
        /\ (den * (D * D * (n - 1)) - 1) \div num >= Q

\* |z| > threshold (threshold in halves: threshold^2 = threshold * threshold / 4)
AboveThreshold(i) == ZSquaredAbove(i, threshold * threshold, 4)

\* |z| > 1.5 * threshold
AboveSevere(i) == ZSquaredAbove(i, 9 * threshold * threshold, 16)

\* the rows of the batch are reported exactly when |z| > threshold
EmittedAboveThreshold ==
    /\ \A k \in 1..Len(anomalies) : AboveThreshold(anomalies[k].contract_id)
    /\ \A i \in 1..Len(volumes) : ~AboveThreshold(i) => i \notin Flagged

\* C11 as stated: every reported row has |z| > threshold, no row with
\* |z| <= threshold is reported, and a reported row has severity "critical"
\* exactly when |z| > 1.5 * threshold.
C11_SeverityCritical ==
    an_pc = "done" =>
        /\ EmittedAboveThreshold
        /\ \A k \in 1..Len(anomalies) :
              anomalies[k].severity = "critical"
                  <=> AboveSevere(anomalies[k].contract_id)

\* C11 as amended: every reported row has |z| > threshold, no row with
\* |z| <= threshold is reported, and a reported row has severity "HIGH"
\* exactly when |z| > 1.5 * threshold and "MEDIUM" otherwise.
C11_SeverityHigh ==
    an_pc = "done" =>
        /\ EmittedAboveThreshold
        /\ \A k \in 1..Len(anomalies) :
              /\ anomalies[k].severity \in {"HIGH", "MEDIUM"}
              /\ anomalies[k].severity = "HIGH"
                    <=> AboveSevere(anomalies[k].contract_id)

\* One batch reports a row above 1.5 * threshold and a row between the
\* threshold and 1.5 * threshold.
C11_Witness ==
    /\ an_pc = "done"
    /\ \E k \in 1..Len(anomalies) : anomalies[k].severity = "HIGH"
    /\ \E k \in 1..Len(anomalies) : anomalies[k].severity = "MEDIUM"
    /\ \E i \in 1..Len(volumes) : i \notin Flagged

\* the rows of the table that belong to symbol s
RowsOf(table, s) == {k \in 1..Len(table) : table[k].symbol = s}

\* the step is one by caller th that inserts a row
Inserts(th) ==
    /\ Len(market_data') = Len(market_data) + 1
    /\ mk_idx'[th] # mk_idx[th] \/ mk_pc'[th] # mk_pc[th]

\* the row a step inserted
Inserted == market_data'[Len(market_data')]

\* C12: when a symbol has exactly one stored row, whatever the age of that
\* row, the price_change_15m the polling cycle computes and stores for the
\* symbol is 0.
C12_SinglePointDefault ==
    [][\A s \in {symbols[i] : i \in 1..NumSymbols} :
          (/\ Inserts("poll")
           /\ Inserted.symbol = s
           /\ Cardinality(RowsOf(market_data, s)) = 1)
              => Inserted.price_change_15m = 0]_vars

\* C13: every change rate stored in table market_data lies within
\* [-1000, 1000].
C13_ChangeRateClamped ==
    \A k \in 1..Len(market_data) :
        /\ market_data[k].price_change_15m >= -1000
        /\ market_data[k].price_change_15m <= 1000
        /\ market_data[k].volume_change_15m >= -1000
        /\ market_data[k].volume_change_15m <= 1000

\* the fetch of the reader's call in progress gave nothing for symbol i
FetchFailedFor(i) == ~mk_tickers["read"][i].present

\* the list holds the most recently persisted row of symbol s
HoldsLatestOf(list, table, s) ==
    \E r \in 1..Len(list) :
        /\ list[r].symbol = s
        /\ list[r].timestamp
               = MaxTimestamp(SelectSeq(table, LAMBDA d : d.symbol = s))

\* C18: when the live fetch of a get_market_data call failed for a symbol
\* that has a persisted row, the list the call returns holds the symbol's
\* most recently persisted row.
C18_FallbackToPersisted ==
    [][(mk_pc["read"] = "fetched" /\ mk_pc'["read"] = "idle")
          => \A i \in 1..NumSymbols :
                (FetchFailedFor(i) /\ RowsOf(market_data, symbols[i]) # {})
                    => HoldsLatestOf(read_result', market_data, symbols[i])]_vars

\* C19: a step of the reader's get_market_data call inserts no row and
\* changes no row of table market_data.
C19_ReaderWritesNothing ==
    [][(mk_idx'["read"] # mk_idx["read"] \/ mk_pc'["read"] # mk_pc["read"])
          => market_data' = market_data]_vars

\* C20: within the rows of one symbol, in insertion order, the timestamps
\* never decrease.
C20_TimestampOrder ==
    \A j, k \in 1..Len(market_data) :
        (j < k /\ market_data[j].symbol = market_data[k].symbol)
            => market_data[j].timestamp <= market_data[k].timestamp

\* the stored points span five hours or more
SpansFiveHours ==
    \E j, k \in 1..Len(market_data) :
        market_data[k].timestamp - market_data[j].timestamp >= 5 * 3600

\* C14: when points spanning five hours are stored and the cleanup task has
\* run, a later query of the market data returns only rows within the
\* retention: none is more than four hours older than that cleanup run.
C14_RetentionWindow ==
    (SpansFiveHours /\ last_cleanup # NoTime /\ query_time >= last_cleanup)
        => \A r \in 1..Len(query_result) :
              query_result[r].timestamp >= last_cleanup - RetentionSeconds

\* C15: once stop() has cleared self.running, and until a start() follows, no
\* update thread begins an update cycle; and once it has also set the stop
\* event, every update thread ends unless a start() follows.
C15_StopsLoop ==
    /\ [][\A t \in UpdateThreads :
             (~running /\ thr_pc[t] # "cycle") => thr_pc'[t] # "cycle"]_vars
    /\ (~running /\ stop_event)
           ~> (running \/ \A t \in UpdateThreads : ~IsAlive(t))

\* stop() was called during a cycle, waited for it, and the thread has ended
C15_Witness ==
    /\ ~running
    /\ stop_event
    /\ joins >= 1
    /\ thr_pc[update_thread] = "dead"

\* C16: stop() closes the database only when no update thread is inside an
\* update cycle.
C16_CloseAfterCycle ==
    [][(~db_closed /\ db_closed')
          => \A t \in UpdateThreads : thr_pc[t] # "cycle"]_vars

\* C17: after stop() has returned, neither background task begins a cycle.
C17_NoCycleAfterStop ==
    [][okx_stopped => okx_cycles' = okx_cycles]_vars

\* C21: when a polling cycle ends, it has inserted exactly one row for each
\* symbol whose ticker it fetched, and none for the others.
C21_OneRowPerSymbol ==
    [][(mk_pc["poll"] # "idle" /\ mk_pc'["poll"] = "idle")
          => \A i \in 1..NumSymbols :
                cycle_rows'[i] = IF mk_tickers["poll"][i].present
                                 THEN 1 ELSE 0]_vars

\* under the key, two lines of the same message are at least log_interval
\* apart
LinesApart ==
    \A j, k \in 1..Len(log_lines) :
        (j < k /\ log_lines[j].msg = log_lines[k].msg)
            => log_lines[k].time - log_lines[j].time >= LOG_INTERVAL

\* a call that writes no line adds exactly one to the count of the entry
CountedOnce ==
    (error_cache' # error_cache /\ log_lines' = log_lines)
        => error_cache' = [error_cache EXCEPT !.count = @ + 1]

\* C22: under one error key, two lines of the same message are never written
\* less than log_interval apart, and a call that writes no line adds exactly
\* one to the count of the entry.
C22_OneLinePerWindow == []LinesApart /\ [][CountedOnce]_vars

\* connections the callers have taken and not returned
RECURSIVE CheckedOutUpTo(_)
CheckedOutUpTo(c) == IF c = 0 THEN 0 ELSE held[c] + CheckedOutUpTo(c - 1)

CheckedOut == CheckedOutUpTo(MaxPoolCallers)

\* until close() is called the pool and the callers hold max_connections
PoolBalanced ==
    close_pc = "idle" => pool_size + CheckedOut = MaxConnections

\* a unit of work that ends, returning or raising, puts its connection back
ReturnedAtEnd ==
    \A c \in PoolCallers :
        (db_pc[c] \in {"func", "func_inner", "func_rest"} /\ db_pc'[c] # db_pc[c]
            /\ db_pc'[c] # "get_inner")
            => /\ held'[c] = held[c] - 1
               /\ pool_size' = pool_size + 1

\* C23: every connection execute_with_connection takes is put back when its
\* unit of work ends, whether it returns or raises, so until close() is
\* called the connections in the pool plus the checked-out ones number
\* max_connections.
C23_ConnectionsReturned == []PoolBalanced /\ [][ReturnedAtEnd]_vars

\* a unit of work raised with the pool exhausted by other callers, and its
\* connection is back
C23_Witness ==
    /\ close_pc = "idle"
    /\ \E c \in PoolCallers :
          /\ db_result[c] = "raised"
          /\ held[c] = 0
    /\ \E d \in PoolCallers : held[d] = 2
    /\ pool_size = 0

\* C29: a caller waiting for a pooled connection can always still get one:
\* the pool holds a connection, or some caller holding one is running its
\* unit of work and will put it back.
C29_NeverWaitsForever ==
    \A c \in PoolCallers :
        db_pc[c] \in {"get", "get_inner"}
            => \/ pool_size > 0
               \/ \E d \in PoolCallers :
                     db_pc[d] \in {"func", "func_inner", "func_rest"}

\* the batch holds a valid and an invalid item
MixedBatch ==
    /\ \E i \in 1..Len(market_data_list) :
          ValidateOptionData(market_data_list[i])
    /\ \E i \in 1..Len(market_data_list) :
          ~ValidateOptionData(market_data_list[i])

\* the call is over, the valid items are in the table, the invalid are not
ValidPersisted ==
    /\ save_result # "none"
    /\ \A i \in 1..Len(market_data_list) :
          i \in option_market_data <=> ValidateOptionData(market_data_list[i])

\* C24: save_market_data on a batch that mixes valid and invalid items ends
\* with every valid item in the table and no invalid one.
C24_ValidItemsPersisted == MixedBatch => <>ValidPersisted

\* C28: save_market_data never waits for self.lock while it holds it itself.
C28_NeverWaitsOnOwnLock ==
    ~(odb_pc["saver"] = "indicators_wait" /\ odb_lock = "saver")

\* the length of the longest series an exchange returned in this call, 0 when
\* none returned one
RECURSIVE LongestUpTo(_)
LongestUpTo(e) ==
    IF e = 0 THEN 0
    ELSE IF series_lens[e] > LongestUpTo(e - 1) THEN series_lens[e]
         ELSE LongestUpTo(e - 1)

\* get_klines has returned
KlinesReturned == agg_pc = "idle" /\ klines_result # NoSeries

\* C25: the series get_klines returns is as long as the longest series an
\* exchange returned in the call; it is empty exactly when no exchange
\* returned a non-empty series, and otherwise it is the series of one
\* exchange, unmerged.
C25_LongestSeries ==
    KlinesReturned =>
        /\ klines_result.len = LongestUpTo(AggExchanges)
        /\ klines_result.len = 0 <=> \A e \in AggIds : series_lens[e] <= 0
        /\ klines_result.len > 0 =>
              /\ klines_result.src \in AggIds
              /\ series_lens[klines_result.src] = klines_result.len

\* two exchanges returned non-empty series, the later one longer, and the
\* longer series was returned whole
C25_Witness ==
    /\ KlinesReturned
    /\ \E e, f \in AggIds :
          /\ e < f
          /\ series_lens[e] > 0
          /\ series_lens[f] > series_lens[e]
          /\ klines_result = [src |-> f, len |-> series_lens[f]]

\* in a history of backoffs a later attempt never waits less than an earlier
NonDecreasing(ws) ==
    \A i, j \in 1..Len(ws) :
        ws[i].attempt < ws[j].attempt => ws[j].wait >= ws[i].wait

\* C26: in _request and in _retry_request the backoff (2 ** attempt) * base
\* delay, jitter aside, of a later attempt is at least that of an earlier
\* attempt.
C26_BackoffNonDecreasing ==
    /\ NonDecreasing(base_waits)
    /\ NonDecreasing(retry_waits)

\* both functions have slept after two attempts, the second time longer
C26_Witness ==
    /\ Len(base_waits) >= 2
    /\ base_waits[2].wait > base_waits[1].wait
    /\ Len(retry_waits) >= 2
    /\ retry_waits[2].wait > retry_waits[1].wait

\* the update threads that are inside update_market_data
Cycling == {t \in UpdateThreads : thr_pc[t] = "cycle"}

\* C27: whatever start() and stop() calls were made, at most one update
\* thread is executing a cycle.
C27_OneUpdateThread == Cardinality(Cycling) <= 1

\* C30: two successive requests that _check_rate_limit admitted for the
\* endpoint begin at least request_interval apart.
C30_RequestsSpaced ==
    \A k \in 1..(Len(request_starts) - 1) :
        request_starts[k + 1] - request_starts[k] >= REQUEST_INTERVAL

====
